---- MODULE Spec2Model ----
(***************************************************************************)
(* Model of the http_serv HTTP server: the accept loop (run_loop) of the   *)
(* sequential and of the threading build, and handle_connection /          *)
(* handle_closure of the two server variants                               *)
(*   "http"        = src/src/http/server.rs        (strict arity)          *)
(*   "http_server" = src/src/http_server/server.rs (catch-all aware),      *)
(* and the functions of src/src/http/http_structs.rs called on their own:  *)
(* from_line, from_stream, query_params_from_string, status_to_header and  *)
(* to_headers (SpecFromLine, SpecFromStream, SpecQuery, SpecStatus,        *)
(* SpecResponse), and handle_connection from its call to its return for    *)
(* route tables and paths of more shapes (SpecHandle).                     *)
(* Strings are sequences of one-character strings.                         *)
(***************************************************************************)
EXTENDS Integers, Sequences, FiniteSets, TLC

VARIABLES server, threading, threads, handlers, default_handler, phase,
          accepted, conn, loop, queue, worker, call

\* call is the call of a library function made directly by the embedding
\* program (HttpHeaders::from_line, HttpRequest::from_stream,
\* query_params_from_string, HttpResponse::to_headers): its argument and,
\* once it returned, its result
vars == <<server, threading, threads, handlers, default_handler, phase,
          accepted, conn, loop, queue, worker, call>>

\* the state of the server
serverVars == <<server, threading, threads, handlers, default_handler, phase,
                accepted, conn, loop, queue, worker>>

(***************************************************************************)
(* Bounds                                                                  *)
(***************************************************************************)
MaxRoutes == 2
MaxConns == 2
MaxThreads == 2

ConnIds == 1..MaxConns
\* a connection waits in the listener's backlog, is open, or is closed (its
\* stream was dropped, or the accept failed)
ConnStatus == {"backlog", "open", "closed"}
\* what run_loop saw of the last stream it got: from_stream failed
\* (rejected), the job was handed to the pool (queued), or handle_connection
\* returned inline (Ok, Err)
LastResult == {"none", "rejected", "queued", "Ok", "Err"}
\* executor 0 is the thread of run_loop itself (inline handling of the
\* build without threading); 1..MaxThreads are pool threads
Executors == 0..MaxThreads

(***************************************************************************)
(* Option values                                                           *)
(***************************************************************************)
None == [some |-> FALSE, val |-> <<>>]
Some(v) == [some |-> TRUE, val |-> v]

(***************************************************************************)
(* str helpers, as the Rust standard library computes them                 *)
(***************************************************************************)
StartsWith(s, c) == Len(s) > 0 /\ s[1] = c
EndsWith(s, c) == Len(s) > 0 /\ s[Len(s)] = c

RECURSIVE SplitAcc(_, _, _, _)
SplitAcc(s, c, i, cur) ==
    IF i > Len(s) THEN <<cur>>
    ELSE IF s[i] = c THEN <<cur>> \o SplitAcc(s, c, i + 1, <<>>)
    ELSE SplitAcc(s, c, i + 1, Append(cur, s[i]))

\* str::split(c): "" gives [""], "/a" gives ["", "a"]
Split(s, c) == SplitAcc(s, c, 1, <<>>)

\* variant: the text is split at the last c
SplitOnceLast(s, c) ==
    IF \E i \in 1..Len(s) : s[i] = c
    THEN LET i == CHOOSE j \in 1..Len(s) :
                      s[j] = c /\ \A k \in (j + 1)..Len(s) : s[k] # c
         IN  [some |-> TRUE, val |-> <<SubSeq(s, 1, i - 1), SubSeq(s, i + 1, Len(s))>>]
    ELSE [some |-> FALSE, val |-> <<>>]

\* str::split_once(c): None, or the text before and after the first c
SplitOnce(s, c) ==
    IF \E i \in 1..Len(s) : s[i] = c
    THEN LET i == CHOOSE j \in 1..Len(s) :
                      s[j] = c /\ \A k \in 1..(j - 1) : s[k] # c
         IN Some(<<SubSeq(s, 1, i - 1), SubSeq(s, i + 1, Len(s))>>)
    ELSE None

RECURSIVE Join(_, _)
Join(parts, c) ==
    IF Len(parts) = 0 THEN <<>>
    ELSE IF Len(parts) = 1 THEN parts[1]
    ELSE parts[1] \o <<c>> \o Join(Tail(parts), c)

NonEmpty(x) == x # <<>>
\* Vec::retain(|x| !x.is_empty())
RetainNonEmpty(parts) == SelectSeq(parts, NonEmpty)

(***************************************************************************)
(* Wire text used by the model                                             *)
(***************************************************************************)
TokGET == <<"G", "E", "T">>
TokPUT == <<"P", "U", "T">>
TokPOST == <<"P", "O", "S", "T">>
TokDELETE == <<"D", "E", "L", "E", "T", "E">>
TokBREW == <<"B", "R", "E", "W">>
Proto == <<"H", "/", "1">>

HttpMethod == {"GET", "PUT", "POST", "DELETE"}

PathA == <<"/", "a">>
PathB == <<"/", "b">>
PathAB == <<"/", "a", "/", "b">>
PathABC == <<"/", "a", "/", "b", "/", "c">>
PathAQ == <<"/", "a", "?", "k", "=", "v">>

PatA == <<"/", "a">>
PatX == <<"/", ":", "x">>
PatAR == <<"/", "a", "/", ":", "r", "*">>

\* patterns the embedding program registers with get and post, the methods
\* the modelled clients send, and with put and delete
PatternSet == {PatA, PatX, PatAR}
PostPatternSet == {PatAR}
OtherPatternSet == {PatX}

RequestLine(m, p) == m \o <<" ">> \o p \o <<" ">> \o Proto

CRLF == <<"\r", "\n">>

\* what a client puts on the wire: nothing at all while it keeps the
\* connection open (the read blocks), or some bytes, after which it shuts
\* down its sending side (the reads then see the end of the stream)
Stalled == [kind |-> "stall", bytes |-> <<>>]
Wire(b) == [kind |-> "data", bytes |-> b]
\* a request of the header line l, no further header and no body
Sent(l) == Wire(l \o CRLF \o CRLF)

GoodLines == {RequestLine(TokGET, p) : p \in {PathA, PathB, PathAB, PathABC, PathAQ}}
             \cup {RequestLine(TokPOST, PathA)}
BadLines == {<<>>, RequestLine(TokBREW, PathA), PathA \o <<" ">> \o Proto}

\* inputs of the build without threading
SeqInputs == {Stalled} \cup {Sent(l) : l \in GoodLines \cup BadLines}
\* inputs of the threading build
PoolInputs == {Stalled, Sent(<<>>), Sent(RequestLine(TokGET, PathA))}

(***************************************************************************)
(* HttpHeaders::from_line and HttpRequest::from_stream                     *)
(***************************************************************************)
Err == [ok |-> FALSE, headers |-> [method |-> "", path |-> <<>>, protocol |-> <<>>]]
OkHeaders(m, p, pr) == [ok |-> TRUE, headers |-> [method |-> m, path |-> p, protocol |-> pr]]

\* the third methodline.pop(): the token left of the path
MethodToken(methodline) == methodline[Len(methodline) - 2]

from_line(headerline) ==
    LET methodline == Split(headerline, " ")
        n == Len(methodline)
    IN  IF n < 2 THEN Err
        ELSE IF n < 3 THEN Err
        ELSE LET protocol == methodline[n]
                 path == methodline[n - 1]
                 m == MethodToken(methodline)
             IN  IF m = TokGET THEN OkHeaders("GET", path, protocol)
                 ELSE IF m = TokPUT THEN OkHeaders("PUT", path, protocol)
                 ELSE IF m = TokPOST THEN OkHeaders("POST", path, protocol)
                 ELSE IF m = TokDELETE THEN OkHeaders("DELETE", path, protocol)
                 ELSE Err

NoRequest == [method |-> "", path |-> <<>>, extra_headers |-> <<>>, data |-> None,
              route_params |-> None, query_params |-> None]

\* str::trim
IsWhitespace(c) == c \in {" ", "\t", "\r", "\n"}
RECURSIVE TrimStart(_)
TrimStart(s) == IF Len(s) > 0 /\ IsWhitespace(s[1]) THEN TrimStart(Tail(s)) ELSE s
RECURSIVE TrimEnd(_)
TrimEnd(s) ==
    IF Len(s) > 0 /\ IsWhitespace(s[Len(s)]) THEN TrimEnd(SubSeq(s, 1, Len(s) - 1)) ELSE s
Trim(s) == TrimEnd(TrimStart(s))

\* BufRead::read_line at position pos: the bytes up to and including the
\* next "\n", or up to the end of the stream (none: Ok(0))
read_line(bytes, pos) ==
    IF \E i \in pos..Len(bytes) : bytes[i] = "\n"
    THEN LET i == CHOOSE j \in pos..Len(bytes) :
                      bytes[j] = "\n" /\ \A k \in pos..(j - 1) : bytes[k] # "\n"
         IN  SubSeq(bytes, pos, i)
    ELSE SubSeq(bytes, pos, Len(bytes))

\* variant: the end of the stream inside the header section is an error
ReadLinesEofResultErr(lines, pos) == [lines |-> <<>>, pos |-> pos]

\* Ok(0) => break: the lines read so far are the header section
ReadLinesEofResult(lines, pos) == [lines |-> lines, pos |-> pos]

\* the loop that reads the header section: the trimmed lines before the
\* first blank line, and the position of the byte after it
RECURSIVE ReadLines(_, _, _)
ReadLines(bytes, pos, lines) ==
    LET line == read_line(bytes, pos)
    IN  IF Len(line) = 0 THEN ReadLinesEofResult(lines, pos)
        ELSE IF Trim(line) = <<>> THEN [lines |-> lines, pos |-> pos + Len(line)]
        ELSE ReadLines(bytes, pos + Len(line), Append(lines, Trim(line)))

\* variant: a line without ':' ends the header list
NoColonLineStops(rest) == <<>>

\* a line without ':' is only logged: the loop goes on with the next line
NoColonLine(rest) == rest

\* for line in lines: split_once(':'), key and value trimmed
RECURSIVE ExtraHeaders(_)
ExtraHeaders(lines) ==
    IF Len(lines) = 0 \/ lines[1] = <<>> THEN <<>>
    ELSE LET so == SplitOnce(lines[1], ":")
         IN  IF so.some
             THEN <<<<Trim(so.val[1]), Trim(so.val[2])>>>> \o ExtraHeaders(Tail(lines))
             ELSE NoColonLine(ExtraHeaders(Tail(lines)))

TokContentLength == <<"C", "o", "n", "t", "e", "n", "t", "-", "L", "e", "n", "g", "t", "h">>
Digits == <<"0", "1", "2", "3", "4", "5", "6", "7", "8", "9">>
IsDigit(c) == \E d \in 1..10 : Digits[d] = c
DigitValue(c) == (CHOOSE d \in 1..10 : Digits[d] = c) - 1

RECURSIVE DecimalValue(_, _)
DecimalValue(s, acc) ==
    IF Len(s) = 0 THEN acc ELSE DecimalValue(Tail(s), acc * 10 + DigitValue(s[1]))

\* str::parse::<usize>: an optional '+', then one or more decimal digits
\* (a value over usize::MAX is an error too; the wire texts of the model
\* have fewer digits than that takes)
ParseUsize(s) ==
    LET digits == IF Len(s) > 0 /\ s[1] = "+" THEN Tail(s) ELSE s
    IN  IF Len(digits) > 0 /\ \A i \in 1..Len(digits) : IsDigit(digits[i])
        THEN [ok |-> TRUE, val |-> DecimalValue(digits, 0)]
        ELSE [ok |-> FALSE, val |-> 0]

\* variant: the header name is compared without regard to case
IsContentLengthAnyCase(name) == name \in {TokContentLength, <<"c", "o", "n", "t", "e", "n", "t", "-", "l", "e", "n", "g", "t", "h">>}

\* if let ("Content-Length", length) = extra_header
IsContentLength(name) == name = TokContentLength

\* variant: read_exact returns what is there
ReadExactShort(bytes, pos, n) ==
    [ok |-> TRUE,
     buffer |-> SubSeq(bytes, pos,
                       IF pos + n - 1 > Len(bytes) THEN Len(bytes) ELSE pos + n - 1)]

\* buf_reader.read_exact(&mut buffer) with a buffer of n bytes
read_exact(bytes, pos, n) ==
    IF pos + n - 1 > Len(bytes) THEN [ok |-> FALSE, buffer |-> <<>>]
    ELSE [ok |-> TRUE, buffer |-> SubSeq(bytes, pos, pos + n - 1)]

\* the loop over extra_headers that fetches the body
RECURSIVE ReadBody(_, _, _, _)
ReadBody(bytes, pos, extra_headers, data) ==
    IF Len(extra_headers) = 0 THEN [ok |-> TRUE, data |-> data]
    ELSE IF ~IsContentLength(extra_headers[1][1])
         THEN ReadBody(bytes, pos, Tail(extra_headers), data)
    ELSE LET length == ParseUsize(extra_headers[1][2])
         IN  IF ~length.ok THEN ReadBody(bytes, pos, Tail(extra_headers), data)
             ELSE LET rd == read_exact(bytes, pos, length.val)
                  IN  IF ~rd.ok THEN [ok |-> FALSE, data |-> None]
                      ELSE ReadBody(bytes, pos + length.val, Tail(extra_headers),
                                    Some(rd.buffer))

FromStreamErr(kind) == [ok |-> FALSE, err |-> kind, req |-> NoRequest]

\* the request returned by from_stream: route and query params are None
from_stream(input) ==
    LET rl == ReadLines(input.bytes, 1, <<>>)
        h == from_line(IF Len(rl.lines) > 0 THEN rl.lines[1] ELSE <<>>)
        extra_headers == IF Len(rl.lines) > 0 THEN ExtraHeaders(Tail(rl.lines)) ELSE <<>>
        body == ReadBody(input.bytes, rl.pos, extra_headers, None)
    IN  IF ~h.ok THEN FromStreamErr("InvalidData")
        ELSE IF ~body.ok THEN FromStreamErr("UnexpectedEof")
        ELSE [ok |-> TRUE, err |-> "",
              req |-> [method |-> h.headers.method, path |-> h.headers.path,
                       extra_headers |-> extra_headers, data |-> body.data,
                       route_params |-> None, query_params |-> None]]

RECURSIVE QueryPairs(_)
QueryPairs(split) ==
    IF Len(split) = 0 THEN <<>>
    ELSE LET so == SplitOnce(split[1], "=")
         IN  (IF so.some THEN <<so.val>> ELSE <<>>) \o QueryPairs(Tail(split))

query_params_from_string(params) == QueryPairs(Split(params, "&"))

\* the route portion and the query params taken from the request path
RoutePortion(path) ==
    LET sp == SplitOnce(path, "?") IN IF sp.some THEN sp.val[1] ELSE path
QueryOf(path) ==
    LET sp == SplitOnce(path, "?")
    IN  IF sp.some THEN Some(query_params_from_string(sp.val[2])) ELSE None

(***************************************************************************)
(* Route matching of handle_connection                                     *)
(***************************************************************************)
\* variant: the catch-all binds only the segment at its position
CatchAllContentOneSegment(received, idx) == received[idx]

\* received_parts[idx_received..].join("/")
CatchAllContent(received, idx) == Join(SubSeq(received, idx, Len(received)), "/")

\* http_server: the loop over received_parts.zip(defined_parts); acc carries
\* route_params and whether a catch-all segment set found_handler
RECURSIVE ZipCatchAll(_, _, _, _)
ZipCatchAll(received, defined, idx, acc) ==
    IF idx > Len(received) \/ idx > Len(defined) THEN acc
    ELSE IF StartsWith(defined[idx], ":")
         THEN IF EndsWith(defined[idx], "*")
              THEN [route_params |-> Append(acc.route_params,
                                       <<defined[idx], CatchAllContent(received, idx)>>),
                    found |-> TRUE]
              ELSE ZipCatchAll(received, defined, idx + 1,
                       [acc EXCEPT !.route_params =
                            Append(@, <<defined[idx], received[idx]>>)])
         ELSE IF received[idx] # defined[idx] THEN acc
              ELSE ZipCatchAll(received, defined, idx + 1, acc)

\* http: the loop over handler_path.zip(request_path); acc carries
\* route_params and path_matches
RECURSIVE ZipStrict(_, _, _, _)
ZipStrict(handler_path, request_path, idx, acc) ==
    IF idx > Len(handler_path) \/ idx > Len(request_path) THEN acc
    ELSE IF StartsWith(handler_path[idx], ":")
         THEN ZipStrict(handler_path, request_path, idx + 1,
                  [acc EXCEPT !.route_params =
                       Append(@, <<handler_path[idx], request_path[idx]>>)])
         ELSE IF handler_path[idx] # request_path[idx]
              THEN [acc EXCEPT !.path_matches = FALSE]
              ELSE ZipStrict(handler_path, request_path, idx + 1, acc)

\* variant: the method of the entry is not compared
MethodMatchesAny(handler, req) == TRUE

\* handler.0 == http_request.http_headers.method
MethodMatches(handler, req) == handler.method = req.method

\* variant: entries of another segment count are compared as well
SameArityNotChecked(handler_path, request_path) == TRUE

\* handler_path.len() != request_path.len() ends the iteration early
SameArity(handler_path, request_path) == Len(handler_path) = Len(request_path)

(***************************************************************************)
(* Handlers and responses                                                  *)
(***************************************************************************)
\* the response of the handler built by HttpServer::new when no default
\* handler is supplied
NotImplementedResponse == [status |-> "NotImplemented", data |-> FALSE]

\* responses a closure of the embedding program may build
UserResponses == {[status |-> "Ok", data |-> FALSE], [status |-> "Ok", data |-> TRUE]}

\* handler number 0 is the default handler
ResponsesOf(h) ==
    IF h = 0 /\ default_handler = "NotImplemented"
    THEN {NotImplementedResponse} ELSE UserResponses

\* results of the write_all calls of handle_closure
WriteOutcomes(resp) ==
    IF resp.data THEN {"ok", "headers_err", "body_err"} ELSE {"ok", "headers_err"}

Invoke(h, req) ==
    [ev |-> "invoke", h |-> h, req |-> req, resp |-> NotImplementedResponse, ok |-> TRUE]
Write(h, req, resp, part, ok) ==
    [ev |-> part, h |-> h, req |-> req, resp |-> resp, ok |-> ok]

\* the writes of handle_closure after exec returned resp: the headers, then
\* the body when there is one; the first failing write ends the function
handle_closure(h, req, resp, outcome) ==
    <<Write(h, req, resp, "headers", outcome # "headers_err")>>
    \o (IF resp.data /\ outcome # "headers_err"
        THEN <<Write(h, req, resp, "body", outcome = "ok")>> ELSE <<>>)

\* variant: the result of handle_closure is ignored
ClosureResultPcIgnored(ok) == "loop"

\* handle_closure(..)? : an Err leaves handle_connection, Ok goes on
ClosureResultPc(ok) == IF ok THEN "loop" ELSE "done"

\* variant: the loop over the handlers ends after the first entry examined
NextIdxBreak(idx, n) == n + 1

\* for handler in handlers: the entry examined after entry idx of n
NextIdx(idx, n) == idx + 1

(***************************************************************************)
(* Executor state                                                          *)
(***************************************************************************)
Idle == [pc |-> "idle", conn |-> 0, req |-> NoRequest, idx |-> 0,
         found_handler |-> FALSE, log |-> <<>>, result |-> "none"]

\* entry of handle_connection(stream, http_request, ..)
StartTask(task) ==
    [pc |-> "loop", conn |-> task.conn, req |-> task.req, idx |-> 1,
     found_handler |-> FALSE, log |-> <<>>, result |-> "none"]

\* variant: the pool has one thread more than asked for
PoolWorkersOneMore(n) == 1..(n + 1)

\* scoped_threadpool::Pool::new(self.threads): the threads of the pool
PoolWorkers(n) == 1..n

\* variant: execute waits for an idle pool thread
CanExecuteWhenIdle(q, w) == \E e \in 1..threads : w[e].pc = "idle"

\* scope.execute(..) sends the job on an unbounded channel: it never waits
CanExecute(q, w) == TRUE

\* variant: the Err of from_stream is propagated out of run_loop
AfterFromStreamErrReturn == "returned"

\* run_loop after from_stream returned Err: continue
AfterFromStreamErr == "incoming"

\* run_loop after handle_connection returned: Ok and Err both go on
AfterHandleConnection(result) == "incoming"

(***************************************************************************)
(* Initial states                                                          *)
(***************************************************************************)
Route(m, p) == [method |-> m, path |-> p]

\* the embedding program calls no library function directly
NoCall == [fn |-> "none", arg |-> <<>>, ret |-> <<>>, pc |-> "none"]

\* route tables given to HttpServer::new in the threading build
PoolTables == {<<Route("GET", PatX)>>}

InitCommon ==
    /\ server \in {"http", "http_server"}
    /\ default_handler \in
         (IF server = "http" THEN {"none"} ELSE {"NotImplemented", "custom"})
    /\ accepted = 0
    /\ conn = [c \in ConnIds |-> "backlog"]
    /\ loop = [pc |-> "incoming", conn |-> 0, input |-> Stalled, last |-> "none"]
    /\ queue = <<>>
    /\ worker = [e \in Executors |-> Idle]
    /\ call = NoCall

\* build without threading: HttpServer::new(addr, port, Vec::new(), default)
InitSeq ==
    /\ InitCommon
    /\ threading = FALSE
    /\ threads = 0
    /\ handlers = <<>>
    /\ phase = "setup"

\* threading build, at the call of run_loop
InitPool ==
    /\ InitCommon
    /\ threading = TRUE
    /\ threads \in 1..MaxThreads
    /\ handlers \in PoolTables
    /\ phase = "running"

Init == InitSeq \/ InitPool

(***************************************************************************)
(* Registration                                                            *)
(***************************************************************************)
Register(m, path) ==
    /\ phase = "setup"
    /\ Len(handlers) < MaxRoutes
    /\ handlers' = Append(handlers, Route(m, path))
    /\ UNCHANGED <<call, server, threading, threads, default_handler, phase,
                   accepted, conn, loop, queue, worker>>

get == \E path \in PatternSet : Register("GET", path)
post == \E path \in PostPatternSet : Register("POST", path)
put == \E path \in OtherPatternSet : Register("PUT", path)
delete == \E path \in OtherPatternSet : Register("DELETE", path)

\* HttpServer::default (http_server only)
default ==
    /\ phase = "setup"
    /\ server = "http_server"
    /\ default_handler' = "custom"
    /\ UNCHANGED <<call, server, threading, threads, handlers, phase,
                   accepted, conn, loop, queue, worker>>

\* the embedding program calls run_loop
run_loop ==
    /\ phase = "setup"
    /\ phase' = "running"
    /\ UNCHANGED <<call, server, threading, threads, handlers, default_handler,
                   accepted, conn, loop, queue, worker>>

(***************************************************************************)
(* run_loop                                                                *)
(***************************************************************************)
Inputs == IF threading THEN PoolInputs ELSE SeqInputs

\* HttpRequest::from_stream(&mut stream) for each wire text a connection of
\* the model can carry
FromStreamResults == [input \in SeqInputs \cup PoolInputs |-> from_stream(input)]

\* for stream in self.listener.incoming(): the next connection of the
\* backlog is accepted (Ok(stream), its bytes are then read by from_stream)
\* or the accept fails (Err: continue)
Incoming ==
    /\ phase = "running"
    /\ loop.pc = "incoming"
    /\ accepted < MaxConns
    /\ accepted' = accepted + 1
    /\ \/ \E input \in Inputs :
            /\ loop' = [pc |-> "from_stream", conn |-> accepted + 1, input |-> input,
                        last |-> loop.last]
            /\ conn' = [conn EXCEPT ![accepted + 1] = "open"]
       \/ /\ loop' = loop
          /\ conn' = [conn EXCEPT ![accepted + 1] = "closed"]
    /\ UNCHANGED <<call, server, threading, threads, handlers, default_handler, phase,
                   queue, worker>>

\* build without threading: HttpRequest::from_stream(&mut stream) on the
\* thread of run_loop, then handle_connection inline
RunLoopSeq ==
    /\ ~threading
    /\ loop.pc = "from_stream"
    /\ loop.input.kind # "stall"
    /\ LET r == FromStreamResults[loop.input]
       IN  IF r.ok
           THEN /\ worker' = [worker EXCEPT ![0] =
                                  StartTask([conn |-> loop.conn, req |-> r.req])]
                /\ loop' = [loop EXCEPT !.pc = "handling"]
                /\ conn' = conn
           ELSE /\ loop' = [pc |-> AfterFromStreamErr, conn |-> 0, input |-> Stalled,
                            last |-> "rejected"]
                /\ conn' = [conn EXCEPT ![loop.conn] = "closed"]
                /\ worker' = worker
    /\ UNCHANGED <<call, server, threading, threads, handlers, default_handler, phase,
                   accepted, queue>>

\* threading build: HttpRequest::from_stream(&mut stream) on the thread of
\* run_loop, then scope.execute(|| handle_connection(..))
RunLoopPooled ==
    /\ threading
    /\ loop.pc = "from_stream"
    /\ loop.input.kind # "stall"
    /\ LET r == FromStreamResults[loop.input]
       IN  IF r.ok
           THEN /\ CanExecute(queue, worker)
                /\ queue' = Append(queue, [conn |-> loop.conn, req |-> r.req])
                /\ loop' = [pc |-> "incoming", conn |-> 0, input |-> Stalled,
                            last |-> "queued"]
                /\ conn' = conn
           ELSE /\ loop' = [pc |-> AfterFromStreamErr, conn |-> 0, input |-> Stalled,
                            last |-> "rejected"]
                /\ conn' = [conn EXCEPT ![loop.conn] = "closed"]
                /\ queue' = queue
    /\ UNCHANGED <<call, server, threading, threads, handlers, default_handler, phase,
                   accepted, worker>>

\* a pool thread receives the next job of the channel
WorkerTake(w) ==
    /\ threading
    /\ w \in PoolWorkers(threads)
    /\ worker[w].pc = "idle"
    /\ queue # <<>>
    /\ worker' = [worker EXCEPT ![w] = StartTask(Head(queue))]
    /\ queue' = Tail(queue)
    /\ UNCHANGED <<call, server, threading, threads, handlers, default_handler, phase,
                   accepted, conn, loop>>

(***************************************************************************)
(* handle_connection                                                       *)
(***************************************************************************)
\* one iteration of `for handler in handlers` in src/src/http_server/server.rs
HandleEntryHttpServer(e) ==
    /\ server = "http_server"
    /\ worker[e].pc = "loop"
    /\ worker[e].idx <= Len(handlers)
    /\ LET st == worker[e]
           handler == handlers[st.idx]
           received_parts == Split(RoutePortion(st.req.path), "/")
           defined_parts == Split(handler.path, "/")
           z == ZipCatchAll(received_parts, defined_parts, 1,
                            [route_params |-> <<>>, found |-> FALSE])
           req1 == [st.req EXCEPT
                      !.query_params = QueryOf(st.req.path),
                      !.route_params = IF z.route_params # <<>>
                                       THEN Some(z.route_params) ELSE @]
       IN  worker' = [worker EXCEPT ![e] =
             IF MethodMatches(handler, req1)
             THEN [st EXCEPT !.req = req1, !.found_handler = TRUE, !.pc = "exec",
                             !.log = Append(@, Invoke(st.idx, req1))]
             ELSE [st EXCEPT !.req = req1, !.found_handler = @ \/ z.found,
                             !.idx = NextIdx(st.idx, Len(handlers))]]
    /\ UNCHANGED <<call, server, threading, threads, handlers, default_handler, phase,
                   accepted, conn, loop, queue>>

\* one iteration of `for handler in handlers` in src/src/http/server.rs
HandleEntryHttp(e) ==
    /\ server = "http"
    /\ worker[e].pc = "loop"
    /\ worker[e].idx <= Len(handlers)
    /\ LET st == worker[e]
           handler == handlers[st.idx]
           handler_path == RetainNonEmpty(Split(handler.path, "/"))
           request_path == RetainNonEmpty(Split(RoutePortion(st.req.path), "/"))
           req0 == [st.req EXCEPT !.query_params = QueryOf(st.req.path)]
           z == ZipStrict(handler_path, request_path, 1,
                          [route_params |-> <<>>, path_matches |-> TRUE])
           req1 == [req0 EXCEPT
                      !.route_params = IF z.route_params # <<>>
                                       THEN Some(z.route_params) ELSE @]
       IN  worker' = [worker EXCEPT ![e] =
             IF ~SameArity(handler_path, request_path)
             THEN [st EXCEPT !.req = req0, !.idx = NextIdx(st.idx, Len(handlers))]
             ELSE IF MethodMatches(handler, req1) /\ z.path_matches
             THEN [st EXCEPT !.req = req1, !.pc = "exec",
                             !.log = Append(@, Invoke(st.idx, req1))]
             ELSE [st EXCEPT !.req = req1, !.idx = NextIdx(st.idx, Len(handlers))]]
    /\ UNCHANGED <<call, server, threading, threads, handlers, default_handler, phase,
                   accepted, conn, loop, queue>>

\* the handler number of the closure an executor is running
Running(st) == IF st.idx <= Len(handlers) THEN st.idx ELSE 0

\* handle_closure: exec(request) returns a response, which is written
HandlerReturn(e) ==
    /\ worker[e].pc = "exec"
    /\ LET st == worker[e]
           h == Running(st)
       IN  \E resp \in ResponsesOf(h) : \E outcome \in WriteOutcomes(resp) :
             worker' = [worker EXCEPT ![e] =
               LET log1 == st.log \o handle_closure(h, st.req, resp, outcome)
                   pc1 == ClosureResultPc(outcome = "ok")
               IN  IF pc1 = "loop" /\ h # 0
                   THEN [st EXCEPT !.log = log1, !.pc = "loop",
                                   !.idx = NextIdx(st.idx, Len(handlers))]
                   ELSE [st EXCEPT !.log = log1, !.pc = "done",
                                   !.result = IF outcome = "ok" THEN "Ok" ELSE "Err"]]
    /\ UNCHANGED <<call, server, threading, threads, handlers, default_handler, phase,
                   accepted, conn, loop, queue>>

\* a closure of the embedding program that never returns
HandlerBlocks(e) ==
    /\ worker[e].pc = "exec"
    /\ ~(Running(worker[e]) = 0 /\ default_handler = "NotImplemented")
    /\ worker' = [worker EXCEPT ![e].pc = "hung"]
    /\ UNCHANGED <<call, server, threading, threads, handlers, default_handler, phase,
                   accepted, conn, loop, queue>>

\* after the loop over the handlers: http_server runs the default handler
\* if found_handler is false; http returns Ok(())
LoopEnd(e) ==
    /\ worker[e].pc = "loop"
    /\ worker[e].idx > Len(handlers)
    /\ LET st == worker[e]
       IN  worker' = [worker EXCEPT ![e] =
             IF server = "http_server" /\ ~st.found_handler
             THEN [st EXCEPT !.pc = "exec", !.log = Append(@, Invoke(0, st.req))]
             ELSE [st EXCEPT !.pc = "done", !.result = "Ok"]]
    /\ UNCHANGED <<call, server, threading, threads, handlers, default_handler, phase,
                   accepted, conn, loop, queue>>

\* handle_connection returns: the stream is dropped, the result is matched
\* by the caller (Err is only logged)
Finish(e) ==
    /\ worker[e].pc = "done"
    /\ worker' = [worker EXCEPT ![e] = Idle]
    /\ conn' = [conn EXCEPT ![worker[e].conn] = "closed"]
    /\ loop' = IF e = 0
               THEN [pc |-> AfterHandleConnection(worker[e].result),
                     conn |-> 0, input |-> Stalled, last |-> worker[e].result]
               ELSE loop
    /\ UNCHANGED <<call, server, threading, threads, handlers, default_handler, phase,
                   accepted, queue>>

(***************************************************************************)
(* Specifications                                                          *)
(***************************************************************************)
Next ==
    \/ get \/ post \/ put \/ delete \/ default \/ run_loop
    \/ Incoming \/ RunLoopSeq \/ RunLoopPooled
    \/ \E w \in Executors : WorkerTake(w)
    \/ \E e \in Executors : HandleEntryHttpServer(e)
    \/ \E e \in Executors : HandleEntryHttp(e)
    \/ \E e \in Executors : HandlerReturn(e)
    \/ \E e \in Executors : HandlerBlocks(e)
    \/ \E e \in Executors : LoopEnd(e)
    \/ \E e \in Executors : Finish(e)

Spec == Init /\ [][Next]_vars

\* run_loop of the threading build
NextPool ==
    \/ Incoming \/ RunLoopPooled
    \/ \E w \in Executors : WorkerTake(w)
    \/ \E e \in Executors : HandleEntryHttpServer(e)
    \/ \E e \in Executors : HandleEntryHttp(e)
    \/ \E e \in Executors : HandlerReturn(e)
    \/ \E e \in Executors : HandlerBlocks(e)
    \/ \E e \in Executors : LoopEnd(e)
    \/ \E e \in Executors : Finish(e)

\* an idle pool thread blocked on the channel is woken when a job arrives
FairSpecPool == InitPool /\ [][NextPool]_vars /\ WF_vars(\E w \in Executors : WorkerTake(w))

TypeOK ==
    /\ server \in {"http", "http_server"}
    /\ threading \in BOOLEAN
    /\ accepted \in 0..MaxConns
    /\ \A c \in ConnIds : conn[c] \in ConnStatus
    /\ loop.pc \in {"incoming", "from_stream", "handling", "returned"}
    /\ loop.last \in LastResult
    /\ \A e \in Executors : worker[e].pc \in {"idle", "loop", "exec", "hung", "done"}

(***************************************************************************)
(* Vocabulary of the properties                                            *)
(***************************************************************************)
IsParam(seg) == StartsWith(seg, ":")
IsCatchAll(seg) == StartsWith(seg, ":") /\ EndsWith(seg, "*")
Segments(text) == RetainNonEmpty(Split(text, "/"))
MinLen(a, b) == IF Len(a) < Len(b) THEN Len(a) ELSE Len(b)

\* every compared pair of segments is literally equal or bound by a parameter
SegmentsAgree(P, R) == \A i \in 1..MinLen(P, R) : IsParam(P[i]) \/ P[i] = R[i]

\* policy (a): equal segment counts
StrictMatches(entry, req) ==
    LET P == Segments(entry.path)
        R == Segments(RoutePortion(req.path))
    IN  entry.method = req.method /\ SegmentsAgree(P, R) /\ Len(P) = Len(R)

\* policy (b): equal segment counts, or the pattern ends in a catch-all
PrefixMatches(entry, req) ==
    LET P == Segments(entry.path)
        R == Segments(RoutePortion(req.path))
    IN  /\ entry.method = req.method
        /\ SegmentsAgree(P, R)
        /\ \/ Len(P) = Len(R)
           \/ Len(P) > 0 /\ Len(P) <= Len(R) /\ IsCatchAll(P[Len(P)])

\* the matching policy of the server variant
EntryMatches(entry, req) ==
    IF server = "http" THEN StrictMatches(entry, req) ELSE PrefixMatches(entry, req)

Busy(e) == worker[e].pc # "idle"
Entries == 1..Len(handlers)
Events(e) == 1..Len(worker[e].log)
\* handler h was invoked for the connection executor e handles
Invoked(e, h) == \E k \in Events(e) : worker[e].log[k].ev = "invoke" /\ worker[e].log[k].h = h
\* handle_connection of executor e has gone through entry i of the table
Passed(e, i) ==
    /\ Busy(e)
    /\ \/ worker[e].idx > i
       \/ worker[e].idx = i /\ worker[e].pc \in {"exec", "hung", "done"}
\* HttpRequest::get_route_param: the first pair with that key
get_route_param(req, name) ==
    IF req.route_params.some /\ \E k \in 1..Len(req.route_params.val) :
                                    req.route_params.val[k][1] = name
    THEN LET k == CHOOSE j \in 1..Len(req.route_params.val) :
                      /\ req.route_params.val[j][1] = name
                      /\ \A l \in 1..(j - 1) : req.route_params.val[l][1] # name
         IN  Some(req.route_params.val[k][2])
    ELSE None

(***************************************************************************)
(* C1: a registered entry's handler is invoked only if its method equals   *)
(* the request method, every compared segment pair is equal or bound by a  *)
(* parameter, and the segment counts are equal or the pattern ends in a    *)
(* catch-all. (Fails in http_server: GET '/a' is invoked for GET '/b'.)    *)
(***************************************************************************)
C1_InvokedOnlyOnFullMatch ==
    \A e \in Executors : \A k \in Events(e) :
        LET ev == worker[e].log[k]
        IN  (ev.ev = "invoke" /\ ev.h # 0) => PrefixMatches(handlers[ev.h], ev.req)

(***************************************************************************)
(* C2: when handle_connection of http_server has returned Ok for a request *)
(* that matches no registered entry, the default handler was invoked       *)
(* exactly once and its response written, and that response is 501         *)
(* without body when no default handler was supplied.                      *)
(***************************************************************************)
DefaultInvocations(e) ==
    {k \in Events(e) : worker[e].log[k].ev = "invoke" /\ worker[e].log[k].h = 0}

C2_UnmatchedRunsDefault ==
    \A e \in Executors :
        (/\ server = "http_server"
         /\ worker[e].pc = "done"
         /\ worker[e].result = "Ok"
         /\ \A i \in Entries : ~PrefixMatches(handlers[i], worker[e].req))
        => /\ Cardinality(DefaultInvocations(e)) = 1
           /\ \E k \in Events(e) :
                 /\ worker[e].log[k].ev = "headers"
                 /\ worker[e].log[k].h = 0
                 /\ (default_handler = "NotImplemented"
                        => worker[e].log[k].resp = NotImplementedResponse)

(***************************************************************************)
(* C3: an entry whose method differs from the request's method is never    *)
(* invoked, whatever the path.                                             *)
(***************************************************************************)
C3_MethodMismatchNeverInvoked ==
    \A e \in Executors : \A i \in Entries :
        (Busy(e) /\ handlers[i].method # worker[e].req.method) => ~Invoked(e, i)

\* handle_connection went through an entry of another method whose pattern
\* fits the path, and did not invoke it
C3_Witness ==
    \E e \in Executors : \E i \in Entries :
        /\ worker[e].pc = "done"
        /\ Passed(e, i)
        /\ handlers[i].method # worker[e].req.method
        /\ PrefixMatches([handlers[i] EXCEPT !.method = worker[e].req.method], worker[e].req)
        /\ ~Invoked(e, i)

(***************************************************************************)
(* C4 (as stated): in both servers, a pattern of literal segments followed *)
(* by a catch-all ':name*', against a path with the same literal prefix    *)
(* and one or more further segments, invokes the handler with the route    *)
(* parameter ':name*' bound to the remaining segments joined by '/'.       *)
(***************************************************************************)
\* the pattern P is literals then a catch-all and the path R has that prefix
CatchAllCase(P, R) ==
    /\ Len(P) > 0
    /\ Len(R) >= Len(P)
    /\ IsCatchAll(P[Len(P)])
    /\ \A j \in 1..(Len(P) - 1) : ~IsParam(P[j]) /\ P[j] = R[j]

BindsRest(e, i, P, R) ==
    \E k \in Events(e) :
        /\ worker[e].log[k].ev = "invoke"
        /\ worker[e].log[k].h = i
        /\ get_route_param(worker[e].log[k].req, P[Len(P)])
              = Some(Join(SubSeq(R, Len(P), Len(R)), "/"))

C4_CatchAllBindsRest ==
    \A e \in Executors : \A i \in Entries :
        LET P == Segments(handlers[i].path)
            R == Segments(RoutePortion(worker[e].req.path))
        IN  (/\ Passed(e, i)
             /\ handlers[i].method = worker[e].req.method
             /\ CatchAllCase(P, R))
            => BindsRest(e, i, P, R)

(***************************************************************************)
(* C4 (amended): the catch-all binding holds in the catch-all aware server *)
(* http_server, on the segments as split on '/'; in the strict-arity       *)
(* server http it holds when exactly one segment follows the literal       *)
(* prefix.                                                                 *)
(***************************************************************************)
C4_CatchAllBindsRestAmended ==
    \A e \in Executors : \A i \in Entries :
        (Passed(e, i) /\ handlers[i].method = worker[e].req.method)
        => /\ server = "http_server" =>
                LET P == Split(handlers[i].path, "/")
                    R == Split(RoutePortion(worker[e].req.path), "/")
                IN  CatchAllCase(P, R) => BindsRest(e, i, P, R)
           /\ server = "http" =>
                LET P == Segments(handlers[i].path)
                    R == Segments(RoutePortion(worker[e].req.path))
                IN  (CatchAllCase(P, R) /\ Len(R) = Len(P)) => BindsRest(e, i, P, R)

\* http_server bound a catch-all to more than one remaining segment
C4_Witness ==
    \E e \in Executors : \E i \in Entries :
        LET P == Split(handlers[i].path, "/")
            R == Split(RoutePortion(worker[e].req.path), "/")
        IN  /\ server = "http_server"
            /\ Passed(e, i)
            /\ handlers[i].method = worker[e].req.method
            /\ CatchAllCase(P, R)
            /\ Len(R) > Len(P)
            /\ BindsRest(e, i, P, R)

(***************************************************************************)
(* C5: the handlers of all entries matching a request are invoked, in      *)
(* registration order, and the response of each is completely written      *)
(* before the next handler is invoked; handle_connection stops early only  *)
(* when a write fails.                                                     *)
(***************************************************************************)
IsWrite(ev) == ev.ev \in {"headers", "body"}
\* the last write of a response: the body if there is one, else the headers
CompletesResponse(ev) ==
    IsWrite(ev) /\ ev.ok /\ (ev.ev = "body" <=> ev.resp.data)

C5_AllMatchesInOrder ==
    \A e \in Executors :
        LET log == worker[e].log
        IN  /\ \A i \in Entries :
                 (Passed(e, i) /\ EntryMatches(handlers[i], worker[e].req))
                   => Invoked(e, i)
            /\ \A k1, k2 \in Events(e) :
                 (k1 < k2 /\ log[k1].ev = "invoke" /\ log[k2].ev = "invoke" /\ log[k2].h # 0)
                   => log[k1].h # 0 /\ log[k1].h < log[k2].h
            /\ \A k \in Events(e) :
                 (log[k].ev = "invoke" /\ k > 1)
                   => CompletesResponse(log[k - 1]) /\ log[k - 1].h # log[k].h
            /\ \A k \in Events(e) :
                 (log[k].ev = "invoke" /\ k < Len(log))
                   => log[k + 1].ev = "headers" /\ log[k + 1].h = log[k].h

\* handle_connection returned Ok after invoking two matching entries
C5_Witness ==
    \E e \in Executors : \E i, j \in Entries :
        /\ i < j
        /\ worker[e].pc = "done"
        /\ worker[e].result = "Ok"
        /\ EntryMatches(handlers[i], worker[e].req)
        /\ EntryMatches(handlers[j], worker[e].req)
        /\ Invoked(e, i)
        /\ Invoked(e, j)

(***************************************************************************)
(* C6: when from_stream fails for an accepted connection, the step of      *)
(* run_loop invokes no handler and writes nothing, the connection is       *)
(* closed and run_loop is back at accepting; a closed connection is never  *)
(* handled and run_loop never returns.                                     *)
(***************************************************************************)
Handled(c) ==
    \/ \E e \in Executors : Busy(e) /\ worker[e].conn = c
    \/ \E k \in 1..Len(queue) : queue[k].conn = c

C6_RejectedNeverHandled ==
    /\ loop.pc # "returned"
    /\ \A c \in ConnIds : conn[c] = "closed" => ~Handled(c)

C6_ParseFailureStep ==
    (/\ loop.pc = "from_stream"
     /\ loop.input.kind = "data"
     /\ ~from_stream(loop.input).ok
     /\ loop' # loop)
    => /\ conn'[loop.conn] = "closed"
       /\ worker' = worker
       /\ queue' = queue
       /\ loop'.pc = "incoming"
       /\ loop'.last = "rejected"

C6_ParseFailureIsolated ==
    C6_RejectedNeverHandled /\ [][C6_RejectedNeverHandled' /\ C6_ParseFailureStep]_vars

\* after a rejected connection, a handler runs for the next one
C6_Witness ==
    /\ loop.last = "rejected"
    /\ \E e \in Executors :
          Busy(e) /\ conn[worker[e].conn] = "open" /\ worker[e].log # <<>>

(***************************************************************************)
(* C7: a failed write is the last thing handle_connection does for its     *)
(* connection (no retry, no later handler, no default handler), and when   *)
(* handle_connection has returned Err run_loop goes on accepting.          *)
(***************************************************************************)
C7_FailedWriteIsLast ==
    /\ loop.pc # "returned"
    /\ \A e \in Executors : \A k \in Events(e) :
          (IsWrite(worker[e].log[k]) /\ ~worker[e].log[k].ok)
            => /\ k = Len(worker[e].log)
               /\ worker[e].pc = "done"
               /\ worker[e].result = "Err"

C7_ErrIsOnlyLogged ==
    \A e \in Executors :
        (worker[e].pc = "done" /\ worker[e].result = "Err" /\ worker'[e] # worker[e])
        => /\ worker'[e] = Idle
           /\ conn'[worker[e].conn] = "closed"
           /\ IF e = 0 THEN loop'.pc = "incoming" /\ loop'.last = "Err" ELSE loop' = loop

C7_WriteFailureStops ==
    C7_FailedWriteIsLast /\ [][C7_FailedWriteIsLast' /\ C7_ErrIsOnlyLogged]_vars

\* the previous connection failed on a write; the next one is handled, and
\* its own failed write leaves a later matching entry uninvoked
C7_Witness ==
    /\ loop.last = "Err"
    /\ \E e \in Executors : \E i \in Entries :
          /\ worker[e].pc = "done"
          /\ worker[e].result = "Err"
          /\ i > worker[e].idx
          /\ EntryMatches(handlers[i], worker[e].req)
          /\ ~Invoked(e, i)

(***************************************************************************)
(* C8: in the threading build a connection that stalls while its request   *)
(* bytes are read does not keep run_loop from accepting the connections    *)
(* that wait in the backlog.                                               *)
(***************************************************************************)
C8_StallDoesNotBlockAccept ==
    ~(/\ threading
      /\ loop.pc = "from_stream"
      /\ loop.input.kind = "stall"
      /\ \E c \in ConnIds : conn[c] = "backlog")

(***************************************************************************)
(* C9: in the threading build at most `threads` connections have a handler *)
(* executing (or are being handled at all) at the same time and `threads`  *)
(* does not change while run_loop runs; without threading at most one      *)
(* connection is being handled.                                            *)
(***************************************************************************)
Executing == {e \in Executors : worker[e].pc \in {"exec", "hung"}}
BeingHandled == {e \in Executors : Busy(e)}

C9_Bounded ==
    /\ threading => Cardinality(Executing) <= threads /\ Cardinality(BeingHandled) <= threads
    /\ ~threading => Cardinality(BeingHandled) <= 1

C9_ConcurrencyBounded ==
    C9_Bounded /\ [][C9_Bounded' /\ (phase = "running" => threads' = threads)]_vars

\* every pool thread executes a handler while a further job waits
C9_Witness ==
    /\ threading
    /\ Cardinality(Executing) = threads
    /\ queue # <<>>

(***************************************************************************)
(* C10: in the threading build run_loop accepts and queues connections     *)
(* also while every pool thread is busy; the job at the head of the queue  *)
(* is taken once a pool thread is idle; and while every pool thread is     *)
(* held by a handler that never returns, no queued job is ever taken.      *)
(***************************************************************************)
Saturated == \A w \in 1..threads : Busy(w)
AllHung == \A w \in 1..threads : worker[w].pc = "hung"
SomeIdle == \E w \in 1..threads : ~Busy(w)

C10_AcceptNotGated ==
    Saturated =>
        /\ (loop.pc = "incoming" /\ accepted < MaxConns) => ENABLED Incoming
        /\ (loop.pc = "from_stream" /\ loop.input.kind = "data") => ENABLED RunLoopPooled

C10_StarvedQueueStays ==
    (AllHung /\ queue # <<>>)
    => /\ AllHung'
       /\ Len(queue') >= Len(queue)
       /\ SubSeq(queue', 1, Len(queue)) = queue

C10_HeadIsTaken ==
    \A c \in ConnIds :
        (queue # <<>> /\ Head(queue).conn = c /\ SomeIdle)
          ~> (\E w \in 1..threads : worker[w].conn = c /\ Busy(w))

C10_PoolSaturation ==
    /\ C10_AcceptNotGated
    /\ [][C10_AcceptNotGated' /\ C10_StarvedQueueStays]_vars
    /\ C10_HeadIsTaken

\* pool starvation: every pool thread hangs and a job is queued
C10_Witness == threading /\ AllHung /\ queue # <<>>

(***************************************************************************)
(* C11: for a request line '<METHOD> <route>?<query> HTTP/<ver>' without a *)
(* Content-Length header, the request a handler is invoked with has the    *)
(* given method, a path equal to the route portion only, query params      *)
(* equal to the query pairs in order, and no body. (Fails: the handler     *)
(* sees the path with the query still attached, '/a?k=v'.) Stated for the  *)
(* handlers of registered entries.                                         *)
(***************************************************************************)
MethodTexts == {<<TokGET, "GET">>, <<TokPUT, "PUT">>, <<TokPOST, "POST">>,
                <<TokDELETE, "DELETE">>}
QueryKV == <<"k", "=", "v">>
PairsKV == << <<<<"k">>, <<"v">>>> >>

C11_HandlerSeesRouteAndQuery ==
    \A mt \in MethodTexts : \A route \in {PathA, PathB, PathAB} :
        (/\ ~threading
         /\ loop.pc = "handling"
         /\ loop.input = Sent(RequestLine(mt[1], route \o <<"?">> \o QueryKV)))
        => \A k \in Events(0) :
              (worker[0].log[k].ev = "invoke" /\ worker[0].log[k].h # 0)
              => /\ worker[0].log[k].req.method = mt[2]
                 /\ worker[0].log[k].req.path = route
                 /\ worker[0].log[k].req.query_params = Some(PairsKV)
                 /\ worker[0].log[k].req.data = None

(***************************************************************************)
(* Library functions called on their own                                   *)
(***************************************************************************)
\* no server is running while the embedding program calls a library
\* function directly
InitNoServer ==
    /\ server = "http"
    /\ threading = FALSE
    /\ threads = 0
    /\ handlers = <<>>
    /\ default_handler = "none"
    /\ phase = "library"
    /\ accepted = 0
    /\ conn = [c \in ConnIds |-> "backlog"]
    /\ loop = [pc |-> "incoming", conn |-> 0, input |-> Stalled, last |-> "none"]
    /\ queue = <<>>
    /\ worker = [e \in Executors |-> Idle]

\* the sequences of at most n elements of S
RECURSIVE SeqsUpTo(_, _)
SeqsUpTo(S, n) ==
    IF n = 0 THEN {<<>>}
    ELSE SeqsUpTo(S, n - 1)
         \cup {Append(s, x) : s \in {y \in SeqsUpTo(S, n - 1) : Len(y) = n - 1}, x \in S}

Call(fn, arg) == [fn |-> fn, arg |-> arg, ret |-> <<>>, pc |-> "call"]
Return(ret) == [call EXCEPT !.ret = ret, !.pc = "returned"]
Returned(fn) == call.fn = fn /\ call.pc = "returned"

(***************************************************************************)
(* HttpHeaders::from_line called with a header line                        *)
(***************************************************************************)
MaxTokens == 4

TokGetLower == <<"g", "e", "t">>
LineTokens == {TokGET, TokPUT, TokPOST, TokDELETE, TokBREW, TokGetLower, <<>>, PathA, Proto}

\* header lines of up to MaxTokens tokens separated by single spaces
HeaderLines == {Join(s, " ") : s \in SeqsUpTo(LineTokens, MaxTokens)}

InitFromLine ==
    /\ InitNoServer
    /\ \E headerline \in HeaderLines : call = Call("from_line", headerline)

CallFromLine ==
    /\ call.fn = "from_line"
    /\ call.pc = "call"
    /\ call' = Return(from_line(call.arg))
    /\ UNCHANGED serverVars

SpecFromLine == InitFromLine /\ [][CallFromLine]_vars

(***************************************************************************)
(* C12: from_line takes the last space-separated token as protocol, the    *)
(* second-to-last as path and the whole remainder to their left as the     *)
(* method; it succeeds only when that remainder is exactly one of GET,     *)
(* PUT, POST, DELETE. (Fails: 'BREW GET /a H/1' is parsed as a GET.)       *)
(***************************************************************************)
\* the text left of the last two space-separated tokens
Remainder(tokens) == Join(SubSeq(tokens, 1, Len(tokens) - 2), " ")

C12_MethodIsWholeRemainder ==
    Returned("from_line") =>
        LET tokens == Split(call.arg, " ")
            n == Len(tokens)
        IN  /\ call.ret.ok =>
                 /\ n >= 3
                 /\ call.ret.headers.protocol = tokens[n]
                 /\ call.ret.headers.path = tokens[n - 1]
                 /\ \E mt \in MethodTexts :
                       Remainder(tokens) = mt[1] /\ call.ret.headers.method = mt[2]
            /\ (n >= 3 /\ \E mt \in MethodTexts : Remainder(tokens) = mt[1])
                 => call.ret.ok

(***************************************************************************)
(* HttpRequest::from_stream called with the bytes of a stream              *)
(***************************************************************************)
MaxHeaders == 2
MaxBody == 3

\* a header line as sent, the (name, value) pair it stands for if it has a
\* ':', and the body length it announces if it is a Content-Length header
\* with a decimal value
HeaderText(text, kv, cl, n) == [text |-> text, kv |-> kv, cl |-> cl, n |-> n]

HdrCL2 == HeaderText(<<"C", "o", "n", "t", "e", "n", "t", "-", "L", "e", "n", "g", "t", "h", ":", " ", "2">>, Some(<<TokContentLength, <<"2">>>>), "ok", 2)
HdrCL0 == HeaderText(<<"C", "o", "n", "t", "e", "n", "t", "-", "L", "e", "n", "g", "t", "h", ":", "0">>, Some(<<TokContentLength, <<"0">>>>), "ok", 0)
HdrCLx == HeaderText(<<"C", "o", "n", "t", "e", "n", "t", "-", "L", "e", "n", "g", "t", "h", ":", " ", "x">>, Some(<<TokContentLength, <<"x">>>>), "bad", 0)
HdrCLneg == HeaderText(<<"C", "o", "n", "t", "e", "n", "t", "-", "L", "e", "n", "g", "t", "h", ":", " ", "-", "1">>, Some(<<TokContentLength, <<"-", "1">>>>), "bad", 0)
HdrLower == HeaderText(<<"c", "o", "n", "t", "e", "n", "t", "-", "l", "e", "n", "g", "t", "h", ":", " ", "2">>, Some(<<<<"c", "o", "n", "t", "e", "n", "t", "-", "l", "e", "n", "g", "t", "h">>, <<"2">>>>), "no", 0)
HdrHost == HeaderText(<<" ", "H", "o", "s", "t", " ", ":", " ", " ", "h">>, Some(<<<<"H", "o", "s", "t">>, <<"h">>>>), "no", 0)
HdrABC == HeaderText(<<"a", ":", "b", ":", "c">>, Some(<<<<"a">>, <<"b", ":", "c">>>>), "no", 0)
HdrNoColon == HeaderText(<<"n", "o", "c", "o", "l", "o", "n">>, None, "no", 0)

HeaderTexts == {HdrCL2, HdrCL0, HdrCLx, HdrCLneg, HdrLower, HdrHost, HdrABC, HdrNoColon}

\* the first line of the stream, if the client sent one before the headers
FirstLines == {None, Some(RequestLine(TokGET, PathA)), Some(TokGET \o <<" ">> \o PathA),
               Some(TokGET)}

\* body bytes: a "\n" among them, since the body is not read by lines
BodyOf(n) == [i \in 1..n |-> IF i % 2 = 1 THEN "b" ELSE "\n"]
Bodies == {BodyOf(n) : n \in 0..MaxBody}

\* what a client sends before it shuts down its sending side: a first
\* line, header lines, and either nothing more or the blank line and body
\* bytes
Streams ==
    {[first |-> f, headers |-> hs, blank |-> b, body |-> body] :
        f \in FirstLines, hs \in SeqsUpTo(HeaderTexts, MaxHeaders), b \in BOOLEAN,
        body \in Bodies}

RECURSIVE EncodeHeaders(_)
EncodeHeaders(hs) ==
    IF Len(hs) = 0 THEN <<>> ELSE hs[1].text \o CRLF \o EncodeHeaders(Tail(hs))

\* the bytes on the wire
Encode(s) ==
    (IF s.first.some THEN s.first.val \o CRLF ELSE <<>>)
    \o EncodeHeaders(s.headers)
    \o (IF s.blank THEN CRLF \o s.body ELSE <<>>)

InitFromStream ==
    /\ InitNoServer
    /\ \E s \in Streams : (s.blank \/ s.body = <<>>) /\ call = Call("from_stream", s)

CallFromStream ==
    /\ call.fn = "from_stream"
    /\ call.pc = "call"
    /\ call' = Return(from_stream(Wire(Encode(call.arg))))
    /\ UNCHANGED serverVars

SpecFromStream == InitFromStream /\ [][CallFromStream]_vars

\* vocabulary of the properties of from_stream
GoodFirstLine(s) == s.first = Some(RequestLine(TokGET, PathA))
\* the first line on the wire, which from_stream takes as the header line
HeaderLineOf(s) ==
    IF s.first.some THEN s.first.val
    ELSE IF Len(s.headers) > 0 THEN s.headers[1].text ELSE <<>>
HasColon(h) == h.kv.some
AnnouncesBody(h) == h.cl = "ok"
HeaderIdx(s) == 1..Len(s.headers)
FromStreamOf(s) == from_stream(Wire(Encode(s)))

(***************************************************************************)
(* C13: from_stream fails whenever the header line has fewer than three    *)
(* space-separated tokens, also when the stream ends before any line was   *)
(* read; the end of the stream after the header line and before the blank  *)
(* line is not a failure: the lines read are the header section, as if the *)
(* blank line had been there.                                              *)
(***************************************************************************)
C13_MissingTokensFail ==
    Returned("from_stream") =>
        LET s == call.arg
        IN  /\ Len(Split(Trim(HeaderLineOf(s)), " ")) < 3
                 => ~call.ret.ok /\ call.ret.err = "InvalidData"
            /\ (GoodFirstLine(s) /\ ~s.blank)
                 => /\ call.ret = FromStreamOf([s EXCEPT !.blank = TRUE])
                    /\ (\A i \in HeaderIdx(s) : AnnouncesBody(s.headers[i]) => s.headers[i].n = 0)
                          => call.ret.ok

\* the stream ended after a header line and one more header: a request
\* with that header was returned
C13_Witness ==
    /\ Returned("from_stream")
    /\ GoodFirstLine(call.arg)
    /\ ~call.arg.blank
    /\ call.arg.headers = <<HdrHost>>
    /\ call.ret.ok
    /\ Len(call.ret.req.extra_headers) = 1

\* the stream ended before any line was read: no request
C13_WitnessNoLine ==
    /\ Returned("from_stream")
    /\ ~call.arg.first.some /\ call.arg.headers = <<>> /\ ~call.arg.blank
    /\ ~call.ret.ok

(***************************************************************************)
(* C14: a header line without ':' is skipped and does not abort parsing:   *)
(* the result is what it is without those lines; extra_headers are the     *)
(* lines with a ':', in order, split at the first ':' with key and value   *)
(* trimmed; route_params and query_params are None.                        *)
(***************************************************************************)
RECURSIVE ExpectedPairs(_)
ExpectedPairs(hs) ==
    IF Len(hs) = 0 THEN <<>>
    ELSE (IF hs[1].kv.some THEN <<hs[1].kv.val>> ELSE <<>>) \o ExpectedPairs(Tail(hs))

C14_NoColonLinesSkipped ==
    (Returned("from_stream") /\ GoodFirstLine(call.arg)) =>
        LET s == call.arg
        IN  /\ call.ret = FromStreamOf([s EXCEPT !.headers = SelectSeq(@, HasColon)])
            /\ call.ret.ok =>
                 /\ call.ret.req.extra_headers = ExpectedPairs(s.headers)
                 /\ call.ret.req.route_params = None
                 /\ call.ret.req.query_params = None

\* a line without ':' came before a header whose key and value needed
\* trimming, and the request has that header
C14_Witness ==
    /\ Returned("from_stream")
    /\ GoodFirstLine(call.arg)
    /\ call.arg.headers = <<HdrNoColon, HdrHost>>
    /\ call.ret.ok
    /\ call.ret.req.extra_headers = <<HdrHost.kv.val>>

(***************************************************************************)
(* C15 (as stated): if a header named exactly 'Content-Length' has a value *)
(* that does not parse as a non-negative integer, from_stream succeeds and *)
(* the request has no body; a header of another name (also one that        *)
(* differs by case only) never causes a body to be read.                   *)
(***************************************************************************)
C15_OtherNamesReadNoBody ==
    (\A i \in HeaderIdx(call.arg) : call.arg.headers[i].cl = "no")
        => call.ret.ok /\ call.ret.req.data = None

C15_BadLengthNoBody ==
    (Returned("from_stream") /\ GoodFirstLine(call.arg)) =>
        /\ (\E i \in HeaderIdx(call.arg) : call.arg.headers[i].cl = "bad")
              => call.ret.ok /\ call.ret.req.data = None
        /\ C15_OtherNamesReadNoBody

(***************************************************************************)
(* C15 (amended): the same, for a request none of whose other headers is a *)
(* Content-Length header with a value that parses: the loop over the       *)
(* headers goes on after the header it skipped.                            *)
(***************************************************************************)
C15_BadLengthNoBodyAmended ==
    (Returned("from_stream") /\ GoodFirstLine(call.arg)) =>
        /\ (/\ \E i \in HeaderIdx(call.arg) : call.arg.headers[i].cl = "bad"
            /\ \A i \in HeaderIdx(call.arg) : ~AnnouncesBody(call.arg.headers[i]))
              => call.ret.ok /\ call.ret.req.data = None
        /\ C15_OtherNamesReadNoBody

\* an unparsable Content-Length and a lower-case content-length: 2 before
\* two body bytes: a request without body
C15_Witness ==
    /\ Returned("from_stream")
    /\ GoodFirstLine(call.arg)
    /\ call.arg.headers = <<HdrCLx, HdrLower>>
    /\ call.arg.blank /\ Len(call.arg.body) >= 2
    /\ call.ret.ok
    /\ call.ret.req.data = None

(***************************************************************************)
(* C16: if the Content-Length header of a request parses to n, the body of *)
(* the request is exactly the n bytes after the blank line; if the stream  *)
(* ends before n bytes, from_stream fails with an I/O error and there is   *)
(* no request. Stated for a request with one Content-Length header that    *)
(* parses.                                                                 *)
(***************************************************************************)
Announcing(s) == {i \in HeaderIdx(s) : AnnouncesBody(s.headers[i])}

C16_BodyOfExactlyN ==
    (Returned("from_stream") /\ GoodFirstLine(call.arg)) =>
        \A i \in HeaderIdx(call.arg) :
            LET s == call.arg
                n == s.headers[i].n
            IN  Announcing(s) = {i} =>
                  IF Len(s.body) >= n
                  THEN call.ret.ok /\ call.ret.req.data = Some(SubSeq(s.body, 1, n))
                  ELSE /\ ~call.ret.ok
                       /\ call.ret.err = "UnexpectedEof"
                       /\ call.ret.req = NoRequest

\* Content-Length: 2 before three body bytes: the body is the first two
C16_Witness ==
    /\ Returned("from_stream")
    /\ GoodFirstLine(call.arg)
    /\ Announcing(call.arg) = {1} /\ call.arg.headers[1] = HdrCL2
    /\ Len(call.arg.body) = 3
    /\ call.ret.ok
    /\ call.ret.req.data = Some(<<"b", "\n">>)

\* Content-Length: 2 before one body byte: no request
C16_WitnessShort ==
    /\ Returned("from_stream")
    /\ GoodFirstLine(call.arg)
    /\ Announcing(call.arg) = {1} /\ call.arg.headers[1] = HdrCL2
    /\ call.arg.blank /\ Len(call.arg.body) = 1
    /\ ~call.ret.ok

(***************************************************************************)
(* HttpRequest::query_params_from_string called with a query string        *)
(***************************************************************************)
MaxSegments == 2

\* a segment of a query string as sent, and the (key, value) pair it stands
\* for if it has a '='
Segment(text, kv) == [text |-> text, kv |-> kv]
PairSegment(k, v) == Segment(k \o <<"=">> \o v, Some(<<k, v>>))

QueryKeys == {<<>>, <<"a">>, <<"b">>}
QueryValues == {<<>>, <<"v">>, <<"=", "v">>}
QuerySegments ==
    {Segment(<<>>, None), Segment(<<"a">>, None)}
    \cup {PairSegment(k, v) : k \in QueryKeys, v \in QueryValues}

RECURSIVE SegmentTexts(_)
SegmentTexts(segs) ==
    IF Len(segs) = 0 THEN <<>> ELSE <<segs[1].text>> \o SegmentTexts(Tail(segs))

\* the query string: the segments separated by '&'
QueryString(segs) == Join(SegmentTexts(segs), "&")

InitQuery ==
    /\ InitNoServer
    /\ \E segs \in SeqsUpTo(QuerySegments, MaxSegments) \ {<<>>} :
          call = Call("query_params_from_string", segs)

CallQueryParamsFromString ==
    /\ call.fn = "query_params_from_string"
    /\ call.pc = "call"
    /\ call' = Return(query_params_from_string(QueryString(call.arg)))
    /\ UNCHANGED serverVars

SpecQuery == InitQuery /\ [][CallQueryParamsFromString]_vars

(***************************************************************************)
(* C17: query_params_from_string splits its input on '&' and each segment  *)
(* at its first '='; segments without '=' are dropped; the result is the   *)
(* (key, value) pairs of the other segments in input order, duplicate keys *)
(* kept, where a value may itself contain '='.                             *)
(***************************************************************************)
C17_PairsInOrder ==
    Returned("query_params_from_string") => call.ret = ExpectedPairs(call.arg)

\* two segments with the same key, the first value containing '='
C17_Witness ==
    /\ Returned("query_params_from_string")
    /\ call.arg = <<PairSegment(<<"a">>, <<"=", "v">>), PairSegment(<<"a">>, <<"v">>)>>
    /\ call.ret = << <<<<"a">>, <<"=", "v">>>>, <<<<"a">>, <<"v">>>> >>

\* a segment without '=' is dropped, the pair after it is kept
C17_WitnessDropped ==
    /\ Returned("query_params_from_string")
    /\ call.arg = <<Segment(<<"a">>, None), PairSegment(<<"b">>, <<>>)>>
    /\ call.ret = << <<<<"b">>, <<>>>> >>

(***************************************************************************)
(* HttpStatus and HttpResponse::status_to_header                           *)
(***************************************************************************)
\* enum HttpStatus (repr(u64)): the variants and their declared values
HttpStatusValues ==
    [Continue |-> 100,
     SwitchingProtocols |-> 101,
     Processing |-> 102,
     EarlyHints |-> 103,
     Ok |-> 200,
     Created |-> 201,
     Accepted |-> 202,
     NonAuthorativeInformation |-> 203,
     NoContent |-> 204,
     ResetContent |-> 205,
     PartialContent |-> 206,
     MultiStatus |-> 207,
     AlreadyReported |-> 208,
     IMUsed |-> 226,
     MultipleChoices |-> 300,
     MovedPermanently |-> 301,
     Found |-> 302,
     SeeOther |-> 303,
     NotModified |-> 304,
     UseProxy |-> 305,
     Unused |-> 306,
     TemporaryRedirect |-> 307,
     PermanentRedirect |-> 308,
     BadRequest |-> 400,
     Unauthorized |-> 401,
     PaymentRequired |-> 402,
     Forbidden |-> 403,
     NotFound |-> 404,
     MethodNotAllowed |-> 405,
     NotAcceptable |-> 406,
     ProxyAuthenticationRequired |-> 407,
     RequestTimeout |-> 408,
     Conflict |-> 409,
     Gone |-> 410,
     LengthRequired |-> 411,
     PreconditionFailed |-> 412,
     PayloadTooLarge |-> 413,
     URITooLong |-> 414,
     UnsupportedMediaType |-> 415,
     RangeNotSatisfiable |-> 416,
     ExpectationFailed |-> 417,
     IMATeapot |-> 418,
     MisdirectedRequest |-> 421,
     UnprocessableContent |-> 422,
     Locked |-> 423,
     FailedDependency |-> 424,
     TooEarly |-> 425,
     UpgradeRequired |-> 426,
     PreconditionRequired |-> 428,
     TooManyRequests |-> 429,
     RequestsHeaderFieldsTooLarge |-> 431,
     UnavailableForLegalReasons |-> 451,
     InternalServerError |-> 500,
     NotImplemented |-> 501,
     BadGateway |-> 502,
     ServiceUnavailable |-> 503,
     GatewayTimeout |-> 504,
     HTTPVersionNotSupported |-> 505,
     VariantAlsoNegotiates |-> 506,
     InsufficientStorage |-> 507,
     LoopDetected |-> 508,
     NotExtended |-> 510,
     NetworkAuthenticationRequired |-> 511]

HttpStatus == DOMAIN HttpStatusValues

\* the match of status_to_header: the text of each variant
StatusTexts ==
    [Continue |->
        <<"1", "0", "0", " ", "C", "o", "n", "t", "i", "n", "u", "e">>,
     SwitchingProtocols |->
        <<"1", "0", "1", " ", "S", "w", "i", "t", "c", "h", "i", "n", "g", " ", "P", "r", "o", "t", "o", "c", "o", "l", "s">>,
     Processing |->
        <<"1", "0", "2", " ", "P", "r", "o", "c", "e", "s", "s", "i", "n", "g">>,
     EarlyHints |->
        <<"1", "0", "3", " ", "E", "a", "r", "l", "y", " ", "H", "i", "n", "t", "s">>,
     Ok |->
        <<"2", "0", "0", " ", "O", "K">>,
     Created |->
        <<"2", "0", "1", " ", "C", "r", "e", "a", "t", "e", "d">>,
     Accepted |->
        <<"2", "0", "2", " ", "A", "c", "c", "e", "p", "t", "e", "d">>,
     NonAuthorativeInformation |->
        <<"2", "0", "3", " ", "N", "o", "n", "-", "A", "u", "t", "h", "o", "r", "i", "t", "a", "t", "i", "v", "e", " ", "I", "n", "f", "o", "r", "m", "a", "t", "i", "o", "n">>,
     NoContent |->
        <<"2", "0", "4", " ", "N", "o", " ", "C", "o", "n", "t", "e", "n", "t">>,
     ResetContent |->
        <<"2", "0", "5", " ", "R", "e", "s", "e", "t", " ", "C", "o", "n", "t", "e", "n", "t">>,
     PartialContent |->
        <<"2", "0", "6", " ", "P", "a", "r", "t", "i", "a", "l", " ", "C", "o", "n", "t", "e", "n", "t">>,
     MultiStatus |->
        <<"2", "0", "7", " ", "M", "u", "l", "t", "i", "-", "S", "t", "a", "t", "u", "s">>,
     AlreadyReported |->
        <<"2", "0", "8", " ", "A", "l", "r", "e", "a", "d", "y", " ", "R", "e", "p", "o", "r", "t", "e", "d">>,
     IMUsed |->
        <<"2", "2", "6", " ", "I", "M", " ", "U", "s", "e", "d">>,
     MultipleChoices |->
        <<"3", "0", "0", " ", "M", "u", "l", "t", "i", "p", "l", "e", " ", "C", "h", "o", "i", "c", "e", "s">>,
     MovedPermanently |->
        <<"3", "0", "1", " ", "M", "o", "v", "e", "d", " ", "P", "e", "r", "m", "a", "n", "e", "n", "t", "l", "y">>,
     Found |->
        <<"3", "0", "2", " ", "F", "o", "u", "n", "d">>,
     SeeOther |->
        <<"3", "0", "3", " ", "S", "e", "e", " ", "O", "t", "h", "e", "r">>,
     NotModified |->
        <<"3", "0", "4", " ", "N", "o", "t", " ", "M", "o", "d", "i", "f", "i", "e", "d">>,
     UseProxy |->
        <<"3", "0", "5", " ", "U", "s", "e", " ", "P", "r", "o", "x", "y">>,
     Unused |->
        <<"3", "0", "6", " ", "U", "n", "u", "s", "e", "d">>,
     TemporaryRedirect |->
        <<"3", "0", "7", " ", "T", "e", "m", "p", "o", "r", "a", "r", "y", " ", "R", "e", "d", "i", "r", "e", "c", "t">>,
     PermanentRedirect |->
        <<"3", "0", "8", " ", "P", "e", "r", "m", "a", "n", "e", "n", "t", " ", "R", "e", "d", "i", "r", "e", "c", "t">>,
     BadRequest |->
        <<"4", "0", "0", " ", "B", "a", "d", " ", "R", "e", "q", "u", "e", "s", "t">>,
     Unauthorized |->
        <<"4", "0", "1", " ", "U", "n", "a", "u", "t", "h", "o", "r", "i", "z", "e", "d">>,
     PaymentRequired |->
        <<"4", "0", "2", " ", "P", "a", "y", "m", "e", "n", "t", " ", "R", "e", "q", "u", "i", "r", "e", "d">>,
     Forbidden |->
        <<"4", "0", "3", " ", "F", "o", "r", "b", "i", "d", "d", "e", "n">>,
     NotFound |->
        <<"4", "0", "4", " ", "N", "o", "t", " ", "F", "o", "u", "n", "d">>,
     MethodNotAllowed |->
        <<"4", "0", "5", " ", "M", "e", "t", "h", "o", "d", " ", "N", "o", "t", " ", "A", "l", "l", "o", "w", "e", "d">>,
     NotAcceptable |->
        <<"4", "0", "6", " ", "N", "o", "t", " ", "A", "c", "c", "e", "p", "t", "a", "b", "l", "e">>,
     ProxyAuthenticationRequired |->
        <<"4", "0", "7", " ", "P", "r", "o", "x", "y", " ", "A", "u", "t", "h", "e", "n", "t", "i", "c", "a", "t", "i", "o", "n", " ", "R", "e", "q", "u", "i", "r", "e", "d">>,
     RequestTimeout |->
        <<"4", "0", "8", " ", "R", "e", "q", "u", "e", "s", "t", " ", "T", "i", "m", "e", "o", "u", "t">>,
     Conflict |->
        <<"4", "0", "9", " ", "C", "o", "n", "f", "l", "i", "c", "t">>,
     Gone |->
        <<"4", "1", "0", " ", "G", "o", "n", "e">>,
     LengthRequired |->
        <<"4", "1", "1", " ", "L", "e", "n", "g", "t", "h", " ", "R", "e", "q", "u", "i", "r", "e", "d">>,
     PreconditionFailed |->
        <<"4", "1", "2", " ", "P", "r", "e", "c", "o", "n", "d", "i", "t", "i", "o", "n", " ", "F", "a", "i", "l", "e", "d">>,
     PayloadTooLarge |->
        <<"4", "1", "3", " ", "P", "a", "y", "l", "o", "a", "d", " ", "T", "o", "o", " ", "L", "a", "r", "g", "e">>,
     URITooLong |->
        <<"4", "1", "4", " ", "U", "R", "I", " ", "T", "o", "o", " ", "L", "o", "n", "g">>,
     UnsupportedMediaType |->
        <<"4", "1", "5", " ", "U", "n", "s", "u", "p", "p", "o", "r", "t", "e", "d", " ", "M", "e", "d", "i", "a", " ", "T", "y", "p", "e">>,
     RangeNotSatisfiable |->
        <<"4", "1", "6", " ", "R", "a", "n", "g", "e", " ", "N", "o", "t", " ", "S", "a", "t", "i", "s", "f", "i", "a", "b", "l", "e">>,
     ExpectationFailed |->
        <<"4", "1", "7", " ", "E", "x", "p", "e", "c", "t", "a", "t", "i", "o", "n", " ", "F", "a", "i", "l", "e", "d">>,
     IMATeapot |->
        <<"4", "1", "8", " ", "I", "'", "m", " ", "a", " ", "t", "e", "a", "p", "o", "t">>,
     MisdirectedRequest |->
        <<"4", "2", "1", " ", "M", "i", "s", "d", "i", "r", "e", "c", "t", "e", "d", " ", "R", "e", "q", "u", "e", "s", "t">>,
     UnprocessableContent |->
        <<"4", "2", "2", " ", "U", "n", "p", "r", "o", "c", "e", "s", "s", "a", "b", "l", "e", " ", "E", "n", "t", "i", "t", "y">>,
     Locked |->
        <<"4", "2", "3", " ", "L", "o", "c", "k", "e", "d">>,
     FailedDependency |->
        <<"4", "2", "4", " ", "F", "a", "i", "l", "e", "d", " ", "D", "e", "p", "e", "n", "d", "e", "n", "c", "y">>,
     TooEarly |->
        <<"4", "2", "5", " ", "T", "o", "o", " ", "E", "a", "r", "l", "y">>,
     UpgradeRequired |->
        <<"4", "2", "6", " ", "U", "p", "g", "r", "a", "d", "e", " ", "R", "e", "q", "u", "i", "r", "e", "d">>,
     PreconditionRequired |->
        <<"4", "2", "8", " ", "P", "r", "e", "c", "o", "n", "d", "i", "t", "i", "o", "n", " ", "R", "e", "q", "u", "i", "r", "e", "d">>,
     TooManyRequests |->
        <<"4", "2", "9", " ", "T", "o", "o", " ", "M", "a", "n", "y", " ", "R", "e", "q", "u", "e", "s", "t", "s">>,
     RequestsHeaderFieldsTooLarge |->
        <<"4", "3", "1", " ", "R", "e", "q", "u", "e", "s", "t", " ", "H", "e", "a", "d", "e", "r", " ", "F", "i", "e", "l", "d", "s", " ", "T", "o", "o", " ", "L", "a", "r", "g", "e">>,
     UnavailableForLegalReasons |->
        <<"4", "5", "1", " ", "U", "n", "a", "v", "a", "i", "l", "a", "b", "l", "e", " ", "F", "o", "r", " ", "L", "e", "g", "a", "l", " ", "R", "e", "a", "s", "o", "n", "s">>,
     InternalServerError |->
        <<"5", "0", "0", " ", "I", "n", "t", "e", "r", "n", "a", "l", " ", "S", "e", "r", "v", "e", "r", " ", "E", "r", "r", "o", "r">>,
     NotImplemented |->
        <<"5", "0", "1", " ", "N", "o", "t", " ", "I", "m", "p", "l", "e", "m", "e", "n", "t", "e", "d">>,
     BadGateway |->
        <<"5", "0", "2", " ", "B", "a", "d", " ", "G", "a", "t", "e", "w", "a", "y">>,
     ServiceUnavailable |->
        <<"5", "0", "3", " ", "S", "e", "r", "v", "i", "c", "e", " ", "U", "n", "a", "v", "a", "i", "l", "a", "b", "l", "e">>,
     GatewayTimeout |->
        <<"5", "0", "4", " ", "G", "a", "t", "e", "w", "a", "y", " ", "T", "i", "m", "e", "o", "u", "t">>,
     HTTPVersionNotSupported |->
        <<"5", "0", "5", " ", "H", "T", "T", "P", " ", "V", "e", "r", "s", "i", "o", "n", " ", "N", "o", "t", " ", "S", "u", "p", "p", "o", "r", "t", "e", "d">>,
     VariantAlsoNegotiates |->
        <<"5", "0", "6", " ", "V", "a", "r", "i", "a", "n", "t", " ", "A", "l", "s", "o", " ", "N", "e", "g", "o", "t", "i", "a", "t", "e", "s">>,
     InsufficientStorage |->
        <<"5", "0", "7", " ", "I", "n", "s", "u", "f", "f", "i", "c", "i", "e", "n", "t", " ", "S", "t", "o", "r", "a", "g", "e">>,
     LoopDetected |->
        <<"5", "0", "8", " ", "L", "o", "o", "p", " ", "D", "e", "t", "e", "c", "t", "e", "d">>,
     NotExtended |->
        <<"5", "1", "0", " ", "N", "o", "t", " ", "E", "x", "t", "e", "n", "d", "e", "d">>,
     NetworkAuthenticationRequired |->
        <<"5", "1", "1", " ", "N", "e", "t", "w", "o", "r", "k", " ", "A", "u", "t", "h", "e", "n", "t", "i", "c", "a", "t", "i", "o", "n", " ", "R", "e", "q", "u", "i", "r", "e", "d">>]

\* variant: the arm of Created was copied from the arm of Ok and not edited
StatusToHeaderCopied(status) ==
    IF status = "Created" THEN StatusTexts["Ok"] ELSE StatusTexts[status]

\* fn status_to_header(&self): match self.status
status_to_header(status) == StatusTexts[status]

InitStatus ==
    /\ InitNoServer
    /\ \E status \in HttpStatus : call = Call("status_to_header", status)

CallStatusToHeader ==
    /\ call.fn = "status_to_header"
    /\ call.pc = "call"
    /\ call' = Return(status_to_header(call.arg))
    /\ UNCHANGED serverVars

SpecStatus == InitStatus /\ [][CallStatusToHeader]_vars

(***************************************************************************)
(* HttpResponse::to_headers and HttpData::to_header                        *)
(***************************************************************************)
MaxExtraHeaders == 2
LongBody == 12

\* format!("{}", n) of an unsigned integer
RECURSIVE ToDecimal(_)
ToDecimal(n) ==
    IF n < 10 THEN <<Digits[n + 1]>> ELSE ToDecimal(n \div 10) \o <<Digits[(n % 10) + 1]>>

TokContentLengthColon == TokContentLength \o <<":", " ">>

\* variant: the length is one more than the number of bytes
ToHeaderOneMore(data) == TokContentLengthColon \o ToDecimal(Len(data) + 1)

\* HttpData::to_header: format!("Content-Length: {}", self.data.len())
to_header(data) == TokContentLengthColon \o ToDecimal(Len(data))

\* variant: name and value are separated by ':' alone
ExtraHeaderLineNoSpace(extra_header) == extra_header[1] \o <<":">> \o extra_header[2]

\* format!("{}: {}", extra_header.0, extra_header.1)
ExtraHeaderLine(extra_header) == extra_header[1] \o <<":", " ">> \o extra_header[2]

RECURSIVE ExtraHeaderLines(_)
ExtraHeaderLines(extra_headers) ==
    IF Len(extra_headers) = 0 THEN <<>>
    ELSE <<ExtraHeaderLine(extra_headers[1])>> \o ExtraHeaderLines(Tail(extra_headers))

TokHTTP == <<"H", "T", "T", "P", "/">>

\* format!("HTTP/{} {}", self.http_ver, self.status_to_header())
StatusLine(response) ==
    TokHTTP \o response.http_ver \o <<" ">> \o status_to_header(response.status)

to_headers(response) ==
    <<StatusLine(response)>>
    \o (IF response.data.some THEN <<to_header(response.data.val)>> ELSE <<>>)
    \o (IF response.extra_headers.some
        THEN ExtraHeaderLines(response.extra_headers.val) ELSE <<>>)
    \o <<CRLF>>

\* [String]::join(sep)
RECURSIVE JoinWith(_, _)
JoinWith(parts, sep) ==
    IF Len(parts) = 0 THEN <<>>
    ELSE IF Len(parts) = 1 THEN parts[1]
    ELSE parts[1] \o sep \o JoinWith(Tail(parts), sep)

\* HttpResponse::new(http_ver, status, extra_headers, data)
HttpResponse(http_ver, status, extra_headers, data) ==
    [http_ver |-> http_ver, status |-> status, extra_headers |-> extra_headers,
     data |-> data]

Versions == {<<"2">>, <<"1", ".", "1">>}
ResponseStatuses == {"Ok", "IMATeapot", "NotImplemented"}
ExtraHeaderPairs == {<<<<"A">>, <<"b">>>>, <<<<"X", "-", "Y">>, <<>>>>, <<TokContentLength, <<"5">>>>}

Responses ==
    {HttpResponse(v, s, x, d) :
        v \in Versions, s \in ResponseStatuses,
        x \in {None} \cup {Some(hs) : hs \in SeqsUpTo(ExtraHeaderPairs, MaxExtraHeaders)},
        d \in {None} \cup {Some(b) : b \in Bodies \cup {BodyOf(LongBody)}}}

InitResponse ==
    /\ InitNoServer
    /\ \E response \in Responses : call = Call("to_headers", response)

\* response.to_headers().join("\r\n"), as handle_closure writes it
CallToHeaders ==
    /\ call.fn = "to_headers"
    /\ call.pc = "call"
    /\ call' = Return(JoinWith(to_headers(call.arg), CRLF))
    /\ UNCHANGED serverVars

SpecResponse == InitResponse /\ [][CallToHeaders]_vars

\* vocabulary of the properties of to_headers
\* the text cut at every CRLF ("a\r\n\r\n" gives "a", "", "")
RECURSIVE LinesAcc(_, _, _)
LinesAcc(text, i, cur) ==
    IF i > Len(text) THEN <<cur>>
    ELSE IF i < Len(text) /\ text[i] = "\r" /\ text[i + 1] = "\n"
         THEN <<cur>> \o LinesAcc(text, i + 2, <<>>)
         ELSE LinesAcc(text, i + 1, Append(cur, text[i]))
LinesOf(text) == LinesAcc(text, 1, <<>>)

HasPrefix(s, p) == Len(s) >= Len(p) /\ SubSeq(s, 1, Len(p)) = p
ExtraOf(response) ==
    IF response.extra_headers.some THEN response.extra_headers.val ELSE <<>>
BodyLines(response) == IF response.data.some THEN 1 ELSE 0
AllDigits(s) == Len(s) > 0 /\ \A i \in 1..Len(s) : IsDigit(s[i])

(***************************************************************************)
(* C18: to_headers joined with CRLF is the status line                     *)
(* 'HTTP/<version> <code> <reason>', later every extra header as           *)
(* '<name>: <value>' in the order given, then exactly one blank-line       *)
(* terminator; without body and extra headers it is the status line        *)
(* followed by CRLF CRLF (version '2', Ok: 'HTTP/2 200 OK\r\n\r\n').       *)
(***************************************************************************)
C18_HeaderBlockShape ==
    Returned("to_headers") =>
        LET r == call.arg
            lines == LinesOf(call.ret)
            n == Len(lines)
            x == ExtraOf(r)
        IN  /\ n = 1 + BodyLines(r) + Len(x) + 2
            /\ HasPrefix(lines[1], TokHTTP \o r.http_ver \o <<" ">>
                                   \o ToDecimal(HttpStatusValues[r.status]) \o <<" ">>)
            /\ Len(lines[1]) > Len(TokHTTP \o r.http_ver) + 5
            /\ \A i \in 1..Len(x) :
                  lines[1 + BodyLines(r) + i] = x[i][1] \o <<":", " ">> \o x[i][2]
            /\ lines[n - 1] = <<>> /\ lines[n] = <<>>
            /\ \A i \in 1..(n - 2) : lines[i] # <<>>
            /\ (BodyLines(r) = 0 /\ x = <<>>) => call.ret = lines[1] \o CRLF \o CRLF
            /\ (r.http_ver = <<"2">> /\ r.status = "Ok" /\ BodyLines(r) = 0 /\ x = <<>>)
                  => call.ret = <<"H", "T", "T", "P", "/", "2", " ", "2", "0", "0", " ", "O", "K",
                     "\r", "\n", "\r", "\n">>

\* two extra headers and no body: status line, the two headers, terminator
C18_Witness ==
    /\ Returned("to_headers")
    /\ ~call.arg.data.some
    /\ call.arg.extra_headers = Some(<< <<<<"X", "-", "Y">>, <<>>>>, <<<<"A">>, <<"b">>>> >>)
    /\ call.arg.status = "NotImplemented"
    /\ LinesOf(call.ret)[2] = <<"X", "-", "Y", ":", " ">>
    /\ LinesOf(call.ret)[3] = <<"A", ":", " ", "b">>

CodeText(text) == SplitOnce(text, " ").val[1]
ReasonText(text) == SplitOnce(text, " ").val[2]

StatusExamples ==
    [Ok |-> <<"2", "0", "0", " ", "O", "K">>,
     NotFound |-> <<"4", "0", "4", " ", "N", "o", "t", " ", "F", "o", "u", "n", "d">>,
     IMATeapot |-> <<"4", "1", "8", " ", "I", "'", "m", " ", "a", " ", "t", "e", "a", "p", "o", "t">>,
     NotImplemented |-> <<"5", "0", "1", " ", "N", "o", "t", " ", "I", "m", "p", "l", "e", "m",
        "e", "n", "t", "e", "d">>,
     NetworkAuthenticationRequired |->
        <<"5", "1", "1", " ", "N", "e", "t", "w", "o", "r", "k", " ", "A", "u", "t", "h", "e", "n",
           "t", "i", "c", "a", "t", "i", "o", "n", " ", "R", "e", "q", "u", "i", "r", "e", "d">>]

C20_StatusTableBijection ==
    Returned("status_to_header") =>
        LET s == call.arg
            text == call.ret
        IN  /\ SplitOnce(text, " ").some
            /\ AllDigits(CodeText(text))
            /\ DecimalValue(CodeText(text), 0) = HttpStatusValues[s]
            /\ Len(ReasonText(text)) > 0
            /\ text = status_to_header(s)
            /\ \A t \in HttpStatus \ {s} :
                  /\ HttpStatusValues[t] # HttpStatusValues[s]
                  /\ CodeText(status_to_header(t)) # CodeText(text)
                  /\ ReasonText(status_to_header(t)) # ReasonText(text)
            /\ s \in DOMAIN StatusExamples => text = StatusExamples[s]

\* the text of IMATeapot was produced
C20_Witness ==
    /\ Returned("status_to_header")
    /\ call.arg = "IMATeapot"
    /\ CodeText(call.ret) = <<"4", "1", "8">>

(***************************************************************************)
(* handle_connection on its own: one accepted connection whose request     *)
(* from_stream has parsed, from the call of handle_connection to its       *)
(* return, for route tables and request paths of more shapes               *)
(***************************************************************************)
\* patterns handed to get and post: with and without a leading '/', with a
\* trailing '/', with one and with two parameter segments, with one
\* parameter name twice
MorePatterns ==
    [ab |-> <<"/", "a", "/", "b">>,
     ab_bare |-> <<"a", "/", "b", "/">>,
     ax |-> <<"/", "a", "/", ":", "x">>,
     xy |-> <<"/", ":", "x", "/", ":", "y">>,
     xx |-> <<"/", ":", "x", "/", ":", "x">>]

\* request paths: with duplicate and trailing slashes, with a first segment
\* no literal of the patterns has, with a query of two pairs of one key
MorePaths ==
    [slashes |-> <<"/", "a", "/", "/", "b", "/">>,
     ba |-> <<"/", "b", "/", "a">>,
     abq |-> <<"/", "a", "/", "b", "?", "k", "=", "v", "&", "k", "=", "w">>]

\* entries of the route table: handlers.push((method, path, exec))
HandleEntries ==
    {Route("GET", p) : p \in {MorePatterns.ab, MorePatterns.ab_bare, MorePatterns.ax,
                              MorePatterns.xy, MorePatterns.xx, PatAR}}
    \cup {Route("POST", MorePatterns.ax)}

\* a GET request of the path p with the headers 'k: 1' and 'k: 2'
SentWithHeaders(p) ==
    Wire(RequestLine(TokGET, p) \o CRLF \o <<"k", ":", " ", "1">> \o CRLF
         \o <<"k", ":", " ", "2">> \o CRLF \o CRLF)

\* run_loop of the build without threading has accepted the first
\* connection, from_stream returned Ok(http_request) and handle_connection
\* is called
InitHandle ==
    /\ server \in {"http", "http_server"}
    /\ default_handler \in
         (IF server = "http" THEN {"none"} ELSE {"NotImplemented", "custom"})
    /\ threading = FALSE
    /\ threads = 0
    /\ handlers \in SeqsUpTo(HandleEntries, MaxRoutes)
    /\ phase = "running"
    /\ accepted = 1
    /\ conn = [c \in ConnIds |-> IF c = 1 THEN "open" ELSE "backlog"]
    /\ \E p \in {PathA, PathAB, PathABC, MorePaths.slashes, MorePaths.ba, MorePaths.abq} :
         LET input == SentWithHeaders(p) IN
         /\ loop = [pc |-> "handling", conn |-> 1, input |-> input, last |-> "none"]
         /\ worker = [e \in Executors |->
                        IF e = 0 THEN StartTask([conn |-> 1, req |-> from_stream(input).req])
                        ELSE Idle]
    /\ queue = <<>>
    /\ call = NoCall

NextHandle ==
    \/ \E e \in Executors : HandleEntryHttpServer(e)
    \/ \E e \in Executors : HandleEntryHttp(e)
    \/ \E e \in Executors : HandlerReturn(e)
    \/ \E e \in Executors : HandlerBlocks(e)
    \/ \E e \in Executors : LoopEnd(e)
    \/ \E e \in Executors : Finish(e)

SpecHandle == InitHandle /\ [][NextHandle]_vars

(***************************************************************************)
(* C21: route matching normalizes pattern and request path the same way:   *)
(* both are split on '/' and the empty segments are dropped before they    *)
(* are compared. An entry whose normalized pattern matches the normalized  *)
(* route portion is invoked, with each of its parameter segments bound to  *)
(* the request segment at the same normalized position. (Fails in          *)
(* http_server, which compares the segments as split: for '/a//b/' the     *)
(* pattern '/a/:x' binds ':x' to the empty segment.)                       *)
(***************************************************************************)
\* the first position of the segment seg in the pattern P
FirstAt(P, seg) == CHOOSE j \in 1..Len(P) : P[j] = seg /\ \A l \in 1..(j - 1) : P[l] # seg

\* the request of the invocation binds the single-segment parameters of P
\* to the segments of R at their positions
BindsAtPosition(req, P, R) ==
    \A j \in 1..MinLen(P, R) :
        (IsParam(P[j]) /\ ~IsCatchAll(P[j]))
          => get_route_param(req, P[j]) = Some(R[FirstAt(P, P[j])])

C21_NormalizedTheSameWay ==
    \A e \in Executors : \A i \in Entries :
        LET P == Segments(handlers[i].path)
            R == Segments(RoutePortion(worker[e].req.path))
        IN  (Passed(e, i) /\ EntryMatches(handlers[i], worker[e].req))
            => /\ Invoked(e, i)
               /\ \A k \in Events(e) :
                    (worker[e].log[k].ev = "invoke" /\ worker[e].log[k].h = i)
                      => BindsAtPosition(worker[e].log[k].req, P, R)

(***************************************************************************)
(* HttpRequest::get_extra_header and HttpRequest::get_query_param          *)
(***************************************************************************)
\* variant: the last pair of that name is returned
RECURSIVE LastPair(_, _)
LastPair(pairs, name) ==
    IF Len(pairs) = 0 THEN None
    ELSE IF pairs[Len(pairs)][1] = name THEN Some(pairs[Len(pairs)][2])
    ELSE LastPair(SubSeq(pairs, 1, Len(pairs) - 1), name)

\* for pair in pairs { if pair.0 == name { return Some(pair.1); } } None
RECURSIVE FirstPair(_, _)
FirstPair(pairs, name) ==
    IF Len(pairs) = 0 THEN None
    ELSE IF pairs[1][1] = name THEN Some(pairs[1][2])
    ELSE FirstPair(Tail(pairs), name)

get_extra_header(req, header_name) == FirstPair(req.extra_headers, header_name)

get_query_param(req, param_name) ==
    IF req.query_params.some THEN FirstPair(req.query_params.val, param_name) ELSE None

(***************************************************************************)
(* C22: the request given to an invoked handler of the strict-arity server *)
(* has, for every parameter segment s of the handler's pattern (the token  *)
(* as written, with its ':' and any trailing '*'), a route parameter under *)
(* exactly the key s, and get_route_param(s) is the request segment at the *)
(* position of s (the first one, when s is in the pattern twice);          *)
(* get_route_param, get_query_param and get_extra_header return the value  *)
(* of the first pair whose key equals the name exactly, and None when      *)
(* there is no such pair.                                                  *)
(***************************************************************************)
LookupNames == {<<"k">>, <<"K">>, <<":", "x">>, <<"x">>, <<":", "X">>, <<":", "y">>,
                <<":", "r", "*">>, <<":", "r">>}

\* ret is the value of the first pair of pairs whose key is name
IsFirstOfName(pairs, name, ret) ==
    IF \A j \in 1..Len(pairs) : pairs[j][1] # name THEN ret = None
    ELSE \E j \in 1..Len(pairs) :
            /\ pairs[j][1] = name
            /\ \A l \in 1..(j - 1) : pairs[l][1] # name
            /\ ret = Some(pairs[j][2])

PairsOf(opt) == IF opt.some THEN opt.val ELSE <<>>

C22_ParamsUnderLiteralKey ==
    \A e \in Executors : \A k \in Events(e) :
        LET ev == worker[e].log[k]
            req == ev.req
        IN  ev.ev = "invoke" =>
              /\ (server = "http" /\ ev.h # 0) =>
                    LET P == Segments(handlers[ev.h].path)
                        R == Segments(RoutePortion(req.path))
                    IN  \A j \in 1..Len(P) :
                           IsParam(P[j]) =>
                             /\ \E n \in 1..Len(PairsOf(req.route_params)) :
                                   req.route_params.val[n][1] = P[j]
                             /\ get_route_param(req, P[j]) = Some(R[FirstAt(P, P[j])])
              /\ \A name \in LookupNames :
                    /\ IsFirstOfName(PairsOf(req.route_params), name,
                                     get_route_param(req, name))
                    /\ IsFirstOfName(PairsOf(req.query_params), name,
                                     get_query_param(req, name))
                    /\ IsFirstOfName(req.extra_headers, name, get_extra_header(req, name))

\* a handler of '/:x/:x' invoked for '/a/b?k=v&k=w' with the headers 'k: 1'
\* and 'k: 2': each lookup gives the first of the two values
C22_Witness ==
    \E e \in Executors : \E k \in Events(e) :
        LET ev == worker[e].log[k]
        IN  /\ server = "http"
            /\ ev.ev = "invoke"
            /\ ev.h # 0
            /\ handlers[ev.h].path = MorePatterns.xx
            /\ loop.input = SentWithHeaders(MorePaths.abq)
            /\ get_route_param(ev.req, <<":", "x">>) = Some(<<"a">>)
            /\ get_query_param(ev.req, <<"k">>) = Some(<<"v">>)
            /\ get_extra_header(ev.req, <<"k">>) = Some(<<"1">>)
            /\ get_extra_header(ev.req, <<"K">>) = None

(***************************************************************************)
(* C23: in the strict-arity server (src/http/server.rs) the handler of an  *)
(* entry is invoked exactly when the entry's method equals the request     *)
(* method, the normalized pattern and the normalized route portion have    *)
(* the same number of segments, and every non-parameter segment of the     *)
(* pattern equals the request segment at its position; a pattern shorter   *)
(* or longer than the path is never invoked, and a ':name*' segment binds  *)
(* the single segment at its position.                                     *)
(***************************************************************************)
LiteralsEqual(P, R) == \A j \in 1..Len(P) : ~IsParam(P[j]) => P[j] = R[j]

C23_StrictArity ==
    server = "http" =>
      \A e \in Executors : \A i \in Entries :
        LET P == Segments(handlers[i].path)
            R == Segments(RoutePortion(worker[e].req.path))
        IN  Passed(e, i) =>
              /\ Invoked(e, i) <=> /\ handlers[i].method = worker[e].req.method
                                   /\ Len(P) = Len(R)
                                   /\ LiteralsEqual(P, R)
              /\ Len(P) # Len(R) => ~Invoked(e, i)
              /\ \A k \in Events(e) :
                   (worker[e].log[k].ev = "invoke" /\ worker[e].log[k].h = i)
                     => \A j \in 1..Len(P) :
                          IsCatchAll(P[j])
                            => get_route_param(worker[e].log[k].req, P[j]) = Some(R[j])

\* '/a/b' in the strict-arity server: GET '/a/:r*' was invoked with ':r*'
\* bound to 'b', POST '/a/:x' came next and was not invoked
C23_Witness ==
    \E e \in Executors :
        /\ server = "http"
        /\ worker[e].pc = "done"
        /\ worker[e].result = "Ok"
        /\ worker[e].req.path = PathAB
        /\ Len(handlers) >= 2
        /\ handlers[1] = Route("GET", PatAR)
        /\ handlers[2] = Route("POST", MorePatterns.ax)
        /\ Invoked(e, 1)
        /\ ~Invoked(e, 2)
        /\ \E k \in Events(e) :
              /\ worker[e].log[k].ev = "invoke"
              /\ worker[e].log[k].h = 1
              /\ get_route_param(worker[e].log[k].req, <<":", "r", "*">>) = Some(<<"b">>)

\* '/a/b/c' in the strict-arity server: GET '/a/:r*' was passed and not
\* invoked
C23_WitnessLonger ==
    \E e \in Executors : \E i \in Entries :
        /\ server = "http"
        /\ worker[e].pc = "done"
        /\ worker[e].req.path = PathABC
        /\ handlers[i] = Route("GET", PatAR)
        /\ Passed(e, i)
        /\ ~Invoked(e, i)

(***************************************************************************)
(* C24: when handle_connection returns for a parsed request without a      *)
(* failed write, it has invoked a handler (a registered one or the default *)
(* handler) and written its response completely. (Fails: http_server       *)
(* returns having invoked nothing for GET '/a/b' when the only entry is    *)
(* POST '/a/:r*', and http has no default handler to fall back to.)        *)
(***************************************************************************)
C24_AlwaysAResponse ==
    \A e \in Executors :
        (worker[e].pc = "done" /\ worker[e].result = "Ok")
        => \E k \in Events(e) :
              /\ worker[e].log[k].ev = "invoke"
              /\ \E l \in Events(e) :
                    /\ l > k
                    /\ worker[e].log[l].h = worker[e].log[k].h
                    /\ CompletesResponse(worker[e].log[l])

(***************************************************************************)
(* C25: the route parameters of the request given to an invoked handler    *)
(* are the bindings of that handler's own pattern: every key is a          *)
(* parameter segment of the pattern, bound (when the entry matches) to the *)
(* request segments at its position; a handler whose pattern has no        *)
(* parameter segment, and the default handler, receive route_params =      *)
(* None. (Fails: after GET '/:x' was tested for 'POST /a', the default     *)
(* handler is given ':x' = 'a'; after GET '/:x' ran for 'GET /a', the      *)
(* handler of GET '/a' is given ':x' = 'a'.)                               *)
(***************************************************************************)
ParamPositions(P) == {j \in 1..Len(P) : IsParam(P[j])}

\* what the parameter segment at position j of P binds in the path R
OwnBinding(P, R, j) ==
    IF server = "http_server" /\ IsCatchAll(P[j])
    THEN Join(SubSeq(R, j, Len(R)), "/") ELSE R[j]

C25_OnlyOwnBindings ==
    \A e \in Executors : \A k \in Events(e) :
        LET ev == worker[e].log[k]
            pairs == PairsOf(ev.req.route_params)
        IN  ev.ev = "invoke" =>
              IF ev.h = 0 THEN ev.req.route_params = None
              ELSE LET P == Segments(handlers[ev.h].path)
                       R == Segments(RoutePortion(ev.req.path))
                   IN  /\ ParamPositions(P) = {} => ev.req.route_params = None
                       /\ \A n \in 1..Len(pairs) :
                            \E j \in ParamPositions(P) :
                               /\ pairs[n][1] = P[j]
                               /\ EntryMatches(handlers[ev.h], ev.req)
                                    => pairs[n][2] = OwnBinding(P, R, j)

(***************************************************************************)
(* C26: whenever a handler, registered or default, is invoked for a        *)
(* request whose path contains '?', the request it is given has            *)
(* query_params set to the parsed query portion, for a route table of any  *)
(* size, and every handler invoked for the request is given the same query *)
(* params. (Fails: with an empty route table the default handler of        *)
(* http_server is given query_params = None for '/a?k=v'.)                 *)
(***************************************************************************)
HasQuery(path) == \E i \in 1..Len(path) : path[i] = "?"

C26_QuerySetForEveryHandler ==
    \A e \in Executors : \A k \in Events(e) :
        LET ev == worker[e].log[k]
        IN  (ev.ev = "invoke" /\ HasQuery(ev.req.path)) =>
              /\ ev.req.query_params.some
              /\ ev.req.query_params = QueryOf(ev.req.path)
              /\ ev.req.path = PathAQ => ev.req.query_params = Some(PairsKV)
              /\ \A l \in Events(e) :
                    worker[e].log[l].ev = "invoke"
                      => worker[e].log[l].req.query_params = ev.req.query_params

(***************************************************************************)
(* C27: the header block to_headers produces for a response with a body    *)
(* has exactly one Content-Length line, and its value is the number of     *)
(* bytes of the body, whatever the extra headers are. (Fails: an extra     *)
(* header ('Content-Length', '5') is written as a second Content-Length    *)
(* line, after the computed one.)                                          *)
(***************************************************************************)
ContentLengthLines(lines) ==
    {i \in 1..Len(lines) : HasPrefix(lines[i], TokContentLength \o <<":">>)}

C27_OneContentLengthLine ==
    (Returned("to_headers") /\ call.arg.data.some) =>
        LET lines == LinesOf(call.ret)
        IN  /\ Cardinality(ContentLengthLines(lines)) = 1
            /\ \A i \in ContentLengthLines(lines) :
                  lines[i] = TokContentLengthColon \o ToDecimal(Len(call.arg.data.val))

====
